---- MODULE Spec2Model ----
(***************************************************************************)
(* Model of the YAML data compiler of blt-cli (yaml-converter.ts and       *)
(* constants.ts): target detection, row extraction, environment            *)
(* substitution, value formatting and SQL statement generation; of the     *)
(* file pipeline and the build commands around it; of the configuration    *)
(* loader and of the tag cleanup.                                          *)
(*                                                                         *)
(* Representation.  A JavaScript string that is data (a YAML string value, *)
(* a key, a column, table or function name) is a sequence of one-character *)
(* strings, so that replace(), includes(), toUpperCase() and trim() are    *)
(* computed character by character.  A generated text is a sequence of     *)
(* chunks: data characters stay one-character chunks, the fixed words of   *)
(* the templates are chunks of their own and every white-space run of a    *)
(* template is a chunk of its own.  Text(t) is the string a chunk sequence *)
(* denotes; two generated texts are compared through Text.                 *)
(*                                                                         *)
(* A JavaScript value is a record tagged by t: "undef", "null", "bool",    *)
(* "num", "str", "arr", "obj".  A number is held in tenths (fixed point),  *)
(* so 3, 3.0 and 1.5 are 30, 30 and 15.  An object is the sequence of its  *)
(* own enumerable entries <<key, value>> in the order Object.keys and      *)
(* Object.entries enumerate them.                                          *)
(***************************************************************************)
EXTENDS Integers, Sequences, FiniteSets, TLC

VARIABLES
    pc,           \* position of the run: "input", then the step that was taken
    value,        \* the value handed to a formatter or to the substituter
    column,       \* the column / parameter name handed with it (or NoName)
    literal,      \* toSqlLiteral's result
    param,        \* formatParam's result
    yamlContent,  \* the raw text handed to detectTarget, as lines
    target,       \* detectTarget's result
    parsed,       \* what yaml.load returned for the document
    name,         \* target name handed to jsonToSql / yamlToSql
    type,         \* target kind handed to jsonToSql / yamlToSql
    env,          \* process.env
    sqlContent,   \* the generated SQL, or a thrown error
    resolved,     \* substituteEnvVars's result
    extracted,    \* parseYamlRows's result
    instanceDir,  \* whether the instance directory exists
    yamlDir,      \* the yaml directory beside the sql directory
    sqlDir,       \* the sql directory
    yamlFiles,    \* findYamlFiles's result
    index,        \* how many files of yamlFiles the loop has taken up
    count,        \* processYamlFiles's counter
    console,      \* what was printed, in order
    runs,         \* what each finished run of processYamlFiles left behind
    dist,         \* the combined artifact in the dist directory
    exitCode,     \* the build command's outcome
    configFiles,  \* the three configuration files loadConfig looks for
    config,       \* loadConfig's result
    tagFiles,     \* the files of the yaml directory cleanupTags is run on
    dryRun,       \* options.dryRun
    minCount,     \* options.minCount: {} when not given, {n} when given as n
    cleaned       \* what the run of cleanupTags left

formatVars == <<value, column, literal, param>>
compileVars == <<yamlContent, target, parsed, name, type, sqlContent>>
batchVars == <<yamlDir, sqlDir, yamlFiles, index, count, console, runs>>
buildVars == <<instanceDir, dist, exitCode>>
toolVars == <<configFiles, config, tagFiles, dryRun, minCount, cleaned>>

vars == <<pc, value, column, literal, param, yamlContent, target, parsed,
          name, type, env, sqlContent, resolved, extracted, instanceDir, yamlDir,
          sqlDir, yamlFiles, index, count, console, runs, dist, exitCode,
          configFiles, config, tagFiles, dryRun, minCount, cleaned>>

-----------------------------------------------------------------------------
(* Bounds of the model *)

MaxStrLen == 2
MaxItems == 2
MaxLines == 3
MaxRows == 2
MaxParts == 2
MaxFiles == 3
MaxRuns == 2
MaxTagFiles == 2

-----------------------------------------------------------------------------
(* Texts *)

\* the string a chunk sequence denotes (halving keeps the recursion shallow)
RECURSIVE Text(_)
Text(t) ==
    IF t = <<>> THEN ""
    ELSE IF Len(t) = 1 THEN t[1]
    ELSE Text(SubSeq(t, 1, Len(t) \div 2)) \o Text(SubSeq(t, (Len(t) \div 2) + 1, Len(t)))

RECURSIVE Flatten(_)
Flatten(ts) == IF ts = <<>> THEN <<>> ELSE Head(ts) \o Flatten(Tail(ts))

\* Array.prototype.join: the texts of ts separated by sep
RECURSIVE Join(_, _)
Join(ts, sep) ==
    IF ts = <<>> THEN <<>>
    ELSE IF Len(ts) = 1 THEN ts[1]
    ELSE ts[1] \o sep \o Join(Tail(ts), sep)

\* String.prototype.replace(/c/g, repl) for a one-character pattern
RECURSIVE ReplaceAll(_, _, _)
ReplaceAll(str, c, repl) ==
    IF str = <<>> THEN <<>>
    ELSE (IF Head(str) = c THEN repl ELSE <<Head(str)>>)
         \o ReplaceAll(Tail(str), c, repl)

LowerLetters == <<"a","b","c","d","e","f","g","h","i","j","k","l","m",
                  "n","o","p","q","r","s","t","u","v","w","x","y","z">>
UpperLetters == <<"A","B","C","D","E","F","G","H","I","J","K","L","M",
                  "N","O","P","Q","R","S","T","U","V","W","X","Y","Z">>
Digits == <<"0","1","2","3","4","5","6","7","8","9">>

toUpperChar(c) ==
    IF \E i \in 1..26 : LowerLetters[i] = c
    THEN UpperLetters[CHOOSE i \in 1..26 : LowerLetters[i] = c]
    ELSE c

\* String.prototype.toUpperCase
toUpperCase(str) == [i \in 1..Len(str) |-> toUpperChar(str[i])]

\* String.prototype.includes
includes(str, sub) ==
    \E i \in 0..(Len(str) - Len(sub)) : SubSeq(str, i + 1, i + Len(sub)) = sub

-----------------------------------------------------------------------------
(* JavaScript values *)

Undefined == [t |-> "undef"]
Null == [t |-> "null"]
Bool(b) == [t |-> "bool", b |-> b]
Num(tenths) == [t |-> "num", n |-> tenths]
Str(s) == [t |-> "str", s |-> s]
Arr(items) == [t |-> "arr", items |-> items]
\* the Date object yaml.load returns for a timestamp scalar such as 2024-01-15:
\* typeof "object", truthy, not an array, without own keys
Date == [t |-> "date"]
Obj(entries) == [t |-> "obj", entries |-> entries]

\* the name passed when the optional column / columnName argument is omitted
NoName == <<"(omitted)">>

\* Object.keys
ObjectKeys(o) == [i \in 1..Len(o.entries) |-> o.entries[i][1]]

\* property read o[k]: undefined when o has no own key k
Get(o, k) ==
    IF \E i \in 1..Len(o.entries) : o.entries[i][1] = k
    THEN o.entries[CHOOSE i \in 1..Len(o.entries) : o.entries[i][1] = k][2]
    ELSE Undefined

\* the decimal digits of a natural number
RECURSIVE NatText(_)
NatText(n) ==
    IF n < 10 THEN <<Digits[n + 1]>>
    ELSE NatText(n \div 10) \o <<Digits[(n % 10) + 1]>>

\* (faulty variant of NumText: the fraction dropped)
NumText_noFraction(n) ==
    LET a == IF n < 0 THEN 0 - n ELSE n
    IN  (IF n < 0 THEN <<"-">> ELSE <<>>) \o NatText(a \div 10)

\* String(n) for a number held in tenths
NumText(n) ==
    LET a == IF n < 0 THEN 0 - n ELSE n
    IN  (IF n < 0 THEN <<"-">> ELSE <<>>)
        \o NatText(a \div 10)
        \o (IF a % 10 = 0 THEN <<>> ELSE <<".", Digits[(a % 10) + 1]>>)

\* Number.isInteger
isInteger(n) == n % 10 = 0

\* String(v): what a template literal or String() prints for a value
RECURSIVE JSString(_)
JSString(v) ==
    CASE v.t = "undef" -> <<"undefined">>
      [] v.t = "null" -> <<"null">>
      [] v.t = "bool" -> IF v.b THEN <<"true">> ELSE <<"false">>
      [] v.t = "num" -> NumText(v.n)
      [] v.t = "str" -> v.s
      [] v.t = "arr" ->
            Join([i \in 1..Len(v.items) |->
                    IF v.items[i].t \in {"null", "undef"} THEN <<>>
                    ELSE JSString(v.items[i])], <<",">>)
      [] v.t = "obj" -> <<"[object Object]">>

\* JSON.stringify of a string: quoted, with " and \ escaped
JSONQuote(s) ==
    <<"\"">> \o ReplaceAll(ReplaceAll(s, "\\", <<"\\", "\\">>), "\"", <<"\\", "\"">>)
    \o <<"\"">>

RECURSIVE JSONstringify(_)
JSONstringify(v) ==
    CASE v.t \in {"null", "undef"} -> <<"null">>
      [] v.t = "bool" -> IF v.b THEN <<"true">> ELSE <<"false">>
      [] v.t = "num" -> NumText(v.n)
      [] v.t = "str" -> JSONQuote(v.s)
      [] v.t = "arr" ->
            <<"[">> \o Join([i \in 1..Len(v.items) |-> JSONstringify(v.items[i])],
                            <<",">>) \o <<"]">>
      [] v.t = "obj" ->
            LET kept == SelectSeq(v.entries, LAMBDA e : e[2].t # "undef")
            IN  <<"{">>
                \o Join([i \in 1..Len(kept) |->
                           JSONQuote(kept[i][1]) \o <<":">>
                           \o JSONstringify(kept[i][2])], <<",">>)
                \o <<"}">>

\* JSON.stringify(value).replace(/\\/g, "\\\\").replace(/'/g, "''")
jsonForSql(v) ==
    ReplaceAll(ReplaceAll(JSONstringify(v), "\\", <<"\\", "\\">>), "'", <<"'", "'">>)

-----------------------------------------------------------------------------
(* Value formatting *)

\* (faulty variant of escapeString: quotes left as they are)
escapeString_keepsQuotes(str) == str

escapeString(str) == ReplaceAll(str, "'", <<"'", "'">>)

W_NULL == <<"N","U","L","L">>
C_props == <<"p","r","o","p","s">>
C_perms == <<"p","e","r","m","s">>
C_roles == <<"r","o","l","e","s">>

\* (faulty variant of arrayType: the two enum types exchanged)
arrayType_swapped(col) ==
    IF col = C_perms THEN <<"app_role">>
    ELSE IF col = C_roles THEN <<"app_perm">> ELSE <<"text">>

arrayType(col) ==
    IF col = C_perms THEN <<"app_perm">>
    ELSE IF col = C_roles THEN <<"app_role">> ELSE <<"text">>

\* (faulty variant of isNullWord: no toUpperCase)
isNullWord_caseSensitive(str) == str = W_NULL

\* value.toUpperCase() === "NULL"
isNullWord(str) == toUpperCase(str) = W_NULL

toSqlLiteral(v, col) ==
    IF v.t \in {"null", "undef"} THEN <<"NULL">>
    ELSE IF v = Str(<<>>) THEN
        (IF col = C_props THEN <<"'{}'::json">> ELSE <<"NULL">>)
    ELSE IF v.t = "str" THEN
        (IF isNullWord(v.s) THEN <<"NULL">>
         ELSE <<"'">> \o escapeString(v.s) \o <<"'">>)
    ELSE IF v.t = "bool" THEN (IF v.b THEN <<"TRUE">> ELSE <<"FALSE">>)
    ELSE IF v.t = "num" THEN JSString(v)
    ELSE IF v.t = "arr" THEN
        (IF Len(v.items) = 0
         THEN <<"ARRAY[]::">> \o arrayType(col) \o <<"[]">>
         ELSE LET items == [i \in 1..Len(v.items) |->
                              IF v.items[i].t = "str"
                              THEN <<"'">> \o escapeString(v.items[i].s) \o <<"'">>
                              ELSE JSString(v.items[i])]
              IN  <<"ARRAY[">> \o Join(items, <<",", " ">>) \o <<"]::">>
                  \o arrayType(col) \o <<"[]">>)
    ELSE \* typeof value === "object"
        (IF Len(ObjectKeys(v)) = 0 THEN <<"'{}'::json">>
         ELSE <<"'">> \o jsonForSql(v) \o <<"'::json">>)

C_order == <<"o","r","d","e","r">>
C_id == <<"i","d">>
C_uuid == <<"u","u","i","d">>

\* columnName && (columnName.includes("order") ||
\*                (columnName.includes("id") && !columnName.includes("uuid")))
\* (faulty variant of integerHint: the uuid exclusion dropped)
integerHint_noUuidCheck(col) ==
    col # NoName /\ col # <<>>
    /\ (includes(col, C_order) \/ includes(col, C_id))

integerHint(col) ==
    col # NoName /\ col # <<>>
    /\ (includes(col, C_order) \/ (includes(col, C_id) /\ ~includes(col, C_uuid)))

\* the string branch of formatParam
\* (faulty variant of formatStringParam: the ::TEXT cast dropped)
formatStringParam_bareText(s) ==
    IF isNullWord(s) THEN <<"NULL">>
    ELSE <<"'">> \o escapeString(s) \o <<"'">>

formatStringParam(s) ==
    IF isNullWord(s) THEN <<"NULL">>
    ELSE <<"'">> \o escapeString(s) \o <<"'::TEXT">>

RECURSIVE formatParam(_, _)
formatParam(v, col) ==
    IF v.t \in {"null", "undef"} THEN <<"NULL">>
    ELSE IF v.t = "bool" THEN
        (IF v.b THEN <<"TRUE::BOOLEAN">> ELSE <<"FALSE::BOOLEAN">>)
    ELSE IF v.t = "num" THEN
        (IF integerHint(col) THEN JSString(v) \o <<"::INTEGER">>
         ELSE IF isInteger(v.n) THEN JSString(v) \o <<"::INTEGER">>
         ELSE JSString(v) \o <<"::NUMERIC">>)
    ELSE IF v.t = "obj" THEN
        (IF Len(v.entries) = 0 THEN <<"jsonb_build_object()::JSONB">>
         ELSE LET kvSql == [i \in 1..Len(v.entries) |->
                              <<"'">> \o escapeString(v.entries[i][1])
                              \o <<"'", ",", " ">>
                              \o formatParam(v.entries[i][2], NoName)]
              IN  <<"jsonb_build_object(">> \o Join(kvSql, <<",", " ">>)
                  \o <<")::JSONB">>)
    ELSE IF v.t = "arr" THEN <<"'">> \o jsonForSql(v) \o <<"'::JSONB">>
    ELSE formatStringParam(v.s)

-----------------------------------------------------------------------------
(* SQL generation.  A generator returns Ok(text) or Throw(error). *)

Ok(text) == [threw |-> FALSE, text |-> text]
Throw(e) == [threw |-> TRUE, error |-> e]

\* Object.keys(x) and x[k] throw a TypeError when x is undefined or null
Coercible(x) == x.t \notin {"undef", "null"}

\* (faulty variant of RowKeys: the keys re-sorted, `id` moved to the front)
RowKeys_idFirst(row) ==
    IF row.t # "obj" THEN <<>>
    ELSE LET ks == ObjectKeys(row)
         IN  IF Len(ks) = 2 /\ ks[2] = <<"i","d">> THEN <<ks[2], ks[1]>> ELSE ks

\* Object.keys(r.row) of a row value that is not undefined or null
RowKeys(row) == IF row.t = "obj" THEN ObjectKeys(row) ELSE <<>>

\* r.row[col]
RowGet(row, col) == IF row.t = "obj" THEN Get(row, col) ELSE Undefined

Header == <<"-- Generated from JSON data">>

callStatement(keyword, row, fname) ==
    LET columns == RowKeys(row)
        params == [i \in 1..Len(columns) |->
                     formatParam(RowGet(row, columns[i]), columns[i])]
    IN  <<keyword, " ">> \o fname \o <<"(">> \o Join(params, <<",", " ">>)
        \o <<")", ";">>

\* (faulty variant of generateCalls: the statements without the header line)
generateCalls_noHeader(keyword, rows, fname) ==
    IF \E i \in 1..Len(rows) : ~Coercible(rows[i]) THEN Throw("TypeError")
    ELSE Ok(Join([i \in 1..Len(rows) |-> callStatement(keyword, rows[i], fname)],
                 <<"\n">>))

generateCalls(keyword, rows, fname) ==
    IF \E i \in 1..Len(rows) : ~Coercible(rows[i]) THEN Throw("TypeError")
    ELSE Ok(Header \o <<"\n">>
            \o Join([i \in 1..Len(rows) |-> callStatement(keyword, rows[i], fname)],
                    <<"\n">>))

generateFunctionCalls(rows, functionName) == generateCalls("SELECT", rows, functionName)

generateProcedureCalls(rows, procedureName) == generateCalls("CALL", rows, procedureName)

\* (faulty variant of conflictColumn: the last column instead of the first)
conflictColumn_last(columns) ==
    IF Len(columns) = 0 THEN <<"undefined">> ELSE columns[Len(columns)]

\* columns[0], printed by the template ("undefined" when there is none)
conflictColumn(columns) ==
    IF Len(columns) = 0 THEN <<"undefined">> ELSE columns[1]

\* (faulty variant of generateInsert: each tuple from its own row's keys)
generateInsert_ownColumns(rows, tableName) ==
    IF ~Coercible(rows[1]) THEN Throw("TypeError")
    ELSE
    LET columns == RowKeys(rows[1])
        updateColumns == SubSeq(columns, 2, Len(columns))
        valueRows == [r \in 1..Len(rows) |->
            <<"(">>
            \o Join([i \in 1..Len(RowKeys(rows[r])) |->
                       toSqlLiteral(RowGet(rows[r], RowKeys(rows[r])[i]),
                                    RowKeys(rows[r])[i])],
                    <<",", " ">>)
            \o <<")">>]
        updateClauses == [i \in 1..Len(updateColumns) |->
            <<"    ">> \o updateColumns[i] \o <<" ", "=", " ", "COALESCE(EXCLUDED.">>
            \o updateColumns[i] \o <<",", " ">> \o tableName \o <<".">>
            \o updateColumns[i] \o <<")">>]
    IN  IF Len(columns) > 0 /\ \E r \in 1..Len(rows) : ~Coercible(rows[r])
        THEN Throw("TypeError")
        ELSE Ok(Header \o <<"\n", "INSERT", " ", "INTO", " ">> \o tableName
                \o <<" ", "(">> \o Join(columns, <<",", " ">>)
                \o <<")", " ", "VALUES", "\n">>
                \o Join(valueRows, <<",", "\n">>)
                \o <<"\n", "ON", " ", "CONFLICT", " ", "(">>
                \o conflictColumn(columns)
                \o <<")", " ", "DO", " ", "UPDATE", " ", "SET", "\n">>
                \o Join(updateClauses, <<",", "\n">>) \o <<";">>)

generateInsert(rows, tableName) ==
    IF ~Coercible(rows[1]) THEN Throw("TypeError")
    ELSE
    LET columns == RowKeys(rows[1])
        updateColumns == SubSeq(columns, 2, Len(columns))
        valueRows == [r \in 1..Len(rows) |->
            <<"(">>
            \o Join([i \in 1..Len(columns) |->
                       toSqlLiteral(RowGet(rows[r], columns[i]), columns[i])],
                    <<",", " ">>)
            \o <<")">>]
        updateClauses == [i \in 1..Len(updateColumns) |->
            <<"    ">> \o updateColumns[i] \o <<" ", "=", " ", "COALESCE(EXCLUDED.">>
            \o updateColumns[i] \o <<",", " ">> \o tableName \o <<".">>
            \o updateColumns[i] \o <<")">>]
    IN  IF Len(columns) > 0 /\ \E r \in 1..Len(rows) : ~Coercible(rows[r])
        THEN Throw("TypeError")
        ELSE Ok(Header \o <<"\n", "INSERT", " ", "INTO", " ">> \o tableName
                \o <<" ", "(">> \o Join(columns, <<",", " ">>)
                \o <<")", " ", "VALUES", "\n">>
                \o Join(valueRows, <<",", "\n">>)
                \o <<"\n", "ON", " ", "CONFLICT", " ", "(">>
                \o conflictColumn(columns)
                \o <<")", " ", "DO", " ", "UPDATE", " ", "SET", "\n">>
                \o Join(updateClauses, <<",", "\n">>) \o <<";">>)

\* (faulty variant of jsonToSql: the empty row sequence is not set apart)
jsonToSql_noEmptyCheck(rows, nm, ty) ==
    IF Len(rows) = 0 /\ ty = "table" THEN Throw("TypeError")
    ELSE CASE ty = "function" -> generateFunctionCalls(rows, nm)
           [] ty = "procedure" -> generateProcedureCalls(rows, nm)
           [] ty = "table" -> generateInsert(rows, nm)

jsonToSql(rows, nm, ty) ==
    IF Len(rows) = 0 THEN Ok(<<"-- No rows to insert">>)
    ELSE CASE ty = "function" -> generateFunctionCalls(rows, nm)
           [] ty = "procedure" -> generateProcedureCalls(rows, nm)
           [] ty = "table" -> generateInsert(rows, nm)

-----------------------------------------------------------------------------
(* Environment substitution.  env is process.env: a function from the      *)
(* names that are set to their values.                                      *)

UpperStart == {"_"} \cup {UpperLetters[i] : i \in 1..26}
UpperPart == UpperStart \cup {Digits[i] : i \in 1..10}
AnyStart == UpperStart \cup {LowerLetters[i] : i \in 1..26}
AnyPart == AnyStart \cup {Digits[i] : i \in 1..10}

\* process.env[name] ?? match
lookup(e, nm, match) == IF nm \in DOMAIN e THEN e[nm] ELSE match

\* the length of the longest prefix of str made of characters of the class S
RECURSIVE RunIn(_, _)
RunIn(S, str) ==
    IF str = <<>> \/ Head(str) \notin S THEN 0 ELSE 1 + RunIn(S, Tail(str))

\* the length of the longest prefix of str without the character c
RECURSIVE RunUntil(_, _)
RunUntil(c, str) ==
    IF str = <<>> \/ Head(str) = c THEN 0 ELSE 1 + RunUntil(c, Tail(str))

\* .replace(/\$\{([^}]+)\}/g, (match, name) => process.env[name] ?? match)
RECURSIVE substBraced(_, _)
substBraced(str, e) ==
    IF str = <<>> THEN <<>>
    ELSE LET n == IF Len(str) >= 3 /\ str[1] = "$" /\ str[2] = "{"
                  THEN RunUntil("}", SubSeq(str, 3, Len(str)))
                  ELSE 0
         IN  IF n >= 1 /\ Len(str) >= n + 3
             THEN lookup(e, SubSeq(str, 3, n + 2), SubSeq(str, 1, n + 3))
                  \o substBraced(SubSeq(str, n + 4, Len(str)), e)
             ELSE <<Head(str)>> \o substBraced(Tail(str), e)

\* .replace(/\{([A-Z_][A-Z0-9_]*)\}/g, (match, name) => process.env[name] ?? match)
RECURSIVE substCurly(_, _)
substCurly(str, e) ==
    IF str = <<>> THEN <<>>
    ELSE LET n == IF Len(str) >= 2 /\ str[1] = "{" /\ str[2] \in UpperStart
                  THEN RunIn(UpperPart, Tail(str))
                  ELSE 0
         IN  IF n >= 1 /\ Len(str) >= n + 2 /\ str[n + 2] = "}"
             THEN lookup(e, SubSeq(str, 2, n + 1), SubSeq(str, 1, n + 2))
                  \o substCurly(SubSeq(str, n + 3, Len(str)), e)
             ELSE <<Head(str)>> \o substCurly(Tail(str), e)

\* .replace(/\$([A-Z_][A-Z0-9_]*)/gi, (match, name) => process.env[name] ?? match)
RECURSIVE substBare(_, _)
substBare(str, e) ==
    IF str = <<>> THEN <<>>
    ELSE LET n == IF Len(str) >= 2 /\ str[1] = "$" /\ str[2] \in AnyStart
                  THEN RunIn(AnyPart, Tail(str))
                  ELSE 0
         IN  IF n >= 1
             THEN lookup(e, SubSeq(str, 2, n + 1), SubSeq(str, 1, n + 1))
                  \o substBare(SubSeq(str, n + 2, Len(str)), e)
             ELSE <<Head(str)>> \o substBare(Tail(str), e)

substituteEnvVars(str, e) == substBare(substCurly(substBraced(str, e), e), e)

RECURSIVE processEnvVars(_, _)
processEnvVars(v, e) ==
    CASE v.t = "str" -> Str(substituteEnvVars(v.s, e))
      [] v.t = "arr" -> Arr([i \in 1..Len(v.items) |-> processEnvVars(v.items[i], e)])
      [] v.t = "obj" ->
            Obj([i \in 1..Len(v.entries) |->
                   <<v.entries[i][1], processEnvVars(v.entries[i][2], e)>>])
      [] OTHER -> v

-----------------------------------------------------------------------------
(* YAML parsing *)

K_rows == <<"r","o","w","s">>
K_row == <<"r","o","w">>

\* parseYamlRows, applied to what yaml.load returned
parseYamlRows(p) ==
    IF p.t = "arr" THEN p.items
    ELSE IF p.t = "obj" THEN
        (IF Get(p, K_rows).t = "arr" THEN Get(p, K_rows).items ELSE <<p>>)
    ELSE IF p.t = "date" THEN <<p>>
    ELSE <<>>

\* row.row of an item of the row sequence
itemRow(item) == IF item.t = "obj" THEN Get(item, K_row) ELSE Undefined

yamlToSql(p, nm, ty, e) ==
    LET jsonData == parseYamlRows(p)
    IN  IF \E i \in 1..Len(jsonData) : ~Coercible(jsonData[i])
        THEN Throw("TypeError")
        ELSE jsonToSql([i \in 1..Len(jsonData) |->
                          processEnvVars(itemRow(jsonData[i]), e)], nm, ty)

-----------------------------------------------------------------------------
(* Target detection.                                                        *)
(*                                                                          *)
(* The raw text is held as its lines.  A line is [key, sp, body]: key is    *)
(* the marker the line starts with at column 0 ("function", "procedure",    *)
(* "table", each followed by a colon) or "none" for every other line; body  *)
(* is the rest of the line without the white space around it; sp tells      *)
(* whether one space stands before and after body (one space in all when    *)
(* body is empty).  A line with key "none" and an empty body is blank.      *)

NoTarget == [type |-> "null"]

lineBlank(l) == l.key = "none" /\ l.body = <<>>

\* the text of a line, trimmed
lineTrimmed(l) ==
    IF l.key = "none" THEN l.body
    ELSE <<l.key, ":">> \o (IF l.sp /\ l.body # <<>> THEN <<" ">> ELSE <<>>) \o l.body

\* Capture group 1 of /^<key>:\s*(.+)$/m tried at line i, trimmed; "none" when the
\* pattern does not match there.  \s* is greedy and runs over line ends: when
\* nothing but white space follows the colon on line i, (.+) is the next
\* line with any text; when no such line follows, (.+) can only be a space.
captureAt(doc, i) ==
    LET later == {j \in (i + 1)..Len(doc) : ~lineBlank(doc[j])}
    IN  IF doc[i].body # <<>> THEN [found |-> TRUE, name |-> doc[i].body]
        ELSE IF later # {}
        THEN [found |-> TRUE,
              name |-> lineTrimmed(doc[CHOOSE j \in later : \A k \in later : j <= k])]
        ELSE IF \E k \in i..Len(doc) : doc[k].sp
        THEN [found |-> TRUE, name |-> <<>>]
        ELSE [found |-> FALSE]

\* yamlContent.match(PATTERNS.<key>): the leftmost match, or null
match(doc, key) ==
    LET hits == {i \in 1..Len(doc) : doc[i].key = key /\ captureAt(doc, i).found}
    IN  IF hits = {} THEN [found |-> FALSE]
        ELSE captureAt(doc, CHOOSE i \in hits : \A k \in hits : i <= k)

\* (faulty variant of detectTarget: the table pattern tried first)
detectTarget_tableFirst(doc) ==
    IF match(doc, "table").found
    THEN [type |-> "table", name |-> match(doc, "table").name]
    ELSE IF match(doc, "function").found
    THEN [type |-> "function", name |-> match(doc, "function").name]
    ELSE IF match(doc, "procedure").found
    THEN [type |-> "procedure", name |-> match(doc, "procedure").name]
    ELSE NoTarget

detectTarget(doc) ==
    IF match(doc, "function").found
    THEN [type |-> "function", name |-> match(doc, "function").name]
    ELSE IF match(doc, "procedure").found
    THEN [type |-> "procedure", name |-> match(doc, "procedure").name]
    ELSE IF match(doc, "table").found
    THEN [type |-> "table", name |-> match(doc, "table").name]
    ELSE NoTarget

-----------------------------------------------------------------------------
(* The file pipeline: findYamlFiles and processYamlFiles.                   *)
(*                                                                          *)
(* A file name is a sequence of characters.  A directory is Absent or       *)
(* [exists |-> TRUE, files |-> f], f a function from the names of its       *)
(* entries to their contents.  The content of a YAML source is             *)
(* [kind |-> "yaml", doc, loaded]: its text as lines (what detectTarget     *)
(* reads) and what yaml.load makes of it, a value or a YAMLException.  The  *)
(* content of a generated or hand-written SQL file is                       *)
(* [kind |-> "sql", text].                                                  *)

\* a directory or a file that does not exist
Absent == [exists |-> FALSE]

Dir(f) == [exists |-> TRUE, files |-> f]

EmptyDir == Dir(<<>>)

\* the entries of a directory (fs.readdirSync)
readdirSync(d) == DOMAIN d.files

\* yaml.load's outcome
Loaded(v) == [ok |-> TRUE, v |-> v]
YAMLException == [ok |-> FALSE]

\* the characters of file names in the order of their UTF-16 code units
CodeUnits ==
    <<"-", ".">> \o Digits \o UpperLetters \o <<"_">> \o LowerLetters

CodeUnit(c) == CHOOSE i \in 1..Len(CodeUnits) : CodeUnits[i] = c

\* (faulty variant of Before: the larger code unit first)
Before_descending(a, b) ==
    \E i \in 1..Len(b) :
        /\ i <= Len(a) + 1
        /\ \A j \in 1..(i - 1) : a[j] = b[j]
        /\ (i = Len(a) + 1 \/ CodeUnit(a[i]) > CodeUnit(b[i]))

\* a sorts before b under Array.prototype.sort's default comparison
Before(a, b) ==
    \E i \in 1..Len(b) :
        /\ i <= Len(a) + 1
        /\ \A j \in 1..(i - 1) : a[j] = b[j]
        /\ (i = Len(a) + 1 \/ CodeUnit(a[i]) < CodeUnit(b[i]))

\* Array.prototype.sort() of the names in S
RECURSIVE sort(_)
sort(S) ==
    IF S = {} THEN <<>>
    ELSE LET m == CHOOSE x \in S : \A y \in S \ {x} : Before(x, y)
         IN  <<m>> \o sort(S \ {m})

\* String.prototype.endsWith / startsWith
endsWith(str, suffix) ==
    /\ Len(str) >= Len(suffix)
    /\ SubSeq(str, Len(str) - Len(suffix) + 1, Len(str)) = suffix

startsWith(str, prefix) ==
    /\ Len(str) >= Len(prefix)
    /\ SubSeq(str, 1, Len(prefix)) = prefix

\* String.prototype.replace(pattern, replacement) with a string pattern: the
\* first occurrence only
replace(str, pattern, replacement) ==
    LET hits == {i \in 1..(Len(str) - Len(pattern) + 1) :
                    SubSeq(str, i, i + Len(pattern) - 1) = pattern}
    IN  IF hits = {} THEN str
        ELSE LET i == CHOOSE h \in hits : \A k \in hits : h <= k
             IN  SubSeq(str, 1, i - 1) \o replacement
                 \o SubSeq(str, i + Len(pattern), Len(str))

E_yml == <<".", "y", "m", "l">>
E_sql == <<".", "s", "q", "l">>
E_ddl == <<".", "d", "d", "l">>

YamlFile(nm, source) == [name |-> nm, source |-> source]

\* (faulty variant of findYamlFiles: the sql directory is listed first)
findYamlFiles_currentFirst(yd, sd) ==
    LET subdir == IF yd.exists
                  THEN sort({f \in readdirSync(yd) : endsWith(f, E_yml)})
                  ELSE <<>>
        seen == {subdir[i] : i \in 1..Len(subdir)}
        current == sort({f \in readdirSync(sd) : endsWith(f, E_yml) /\ f \notin seen})
    IN  [i \in 1..Len(current) |-> YamlFile(current[i], "current")]
        \o [i \in 1..Len(subdir) |-> YamlFile(subdir[i], "subdir")]

\* findYamlFiles(sqlDir): yd is join(sqlDir, "..", "yaml"), sd is sqlDir
findYamlFiles(yd, sd) ==
    LET subdir == IF yd.exists
                  THEN sort({f \in readdirSync(yd) : endsWith(f, E_yml)})
                  ELSE <<>>
        seen == {subdir[i] : i \in 1..Len(subdir)}
        current == sort({f \in readdirSync(sd) : endsWith(f, E_yml) /\ f \notin seen})
    IN  [i \in 1..Len(subdir) |-> YamlFile(subdir[i], "subdir")]
        \o [i \in 1..Len(current) |-> YamlFile(current[i], "current")]

\* fs.readFileSync(yamlFile.path): the file in the directory it was found in
readFileSync(file, yd, sd) ==
    IF file.source = "subdir" THEN yd.files[file.name] ELSE sd.files[file.name]

\* fs.writeFileSync(join(dir, nm), content): creates or overwrites
writeFileSync(d, nm, content) ==
    Dir([f \in readdirSync(d) \cup {nm} |-> IF f = nm THEN content ELSE d.files[f]])

\* a file's text as detectTarget reads it; no line of a generated or
\* hand-written SQL text of the model starts with a marker
linesOf(content) ==
    IF content.kind = "yaml" THEN content.doc
    ELSE <<[key |-> "none", sp |-> FALSE, body |-> <<"--">>]>>

\* yaml.load(yamlContent); SQL text is not read as YAML, having no marker
load(content) ==
    IF content.kind = "yaml" THEN content.loaded ELSE YAMLException

Printed(kind, nm) == [kind |-> kind, name |-> nm]

\* fs.writeFileSync(sqlPath, sqlContent), console.log, count++ ; an exception
\* of yamlToSql leaves the loop before them
writeSql(st, started, sqlFileName, out) ==
    IF out.threw
    THEN [st EXCEPT !.console = started, !.threw = out.error]
    ELSE [st EXCEPT
             !.sql = writeFileSync(st.sql, sqlFileName,
                                   [kind |-> "sql", text |-> out.text]),
             !.console = Append(started, Printed("created", sqlFileName)),
             !.count = st.count + 1]

\* the loop body once the file is read and its target detected
convert(st, started, file, content, tgt, e) ==
    IF tgt = NoTarget
    THEN [st EXCEPT !.console = Append(started, Printed("error", file.name))]
    ELSE IF ~load(content).ok
    THEN [st EXCEPT !.console = started, !.threw = "YAMLException"]
    ELSE writeSql(st, started, replace(file.name, E_yml, E_sql),
                  yamlToSql(load(content).v, tgt.name, tgt.type, e))

\* one iteration of processYamlFiles's loop, on st = [sql, count, console,
\* threw]: the sql directory, the counter, what was printed, and the
\* exception that left the loop ("no" when none did)
processYamlFile(st, file, yd, e) ==
    convert(st, Append(st.console, Printed("processing", file.name)), file,
            readFileSync(file, yd, st.sql),
            detectTarget(linesOf(readFileSync(file, yd, st.sql))), e)

\* the loop of processYamlFiles from file i on
RECURSIVE processFrom(_, _, _, _, _)
processFrom(st, files, i, yd, e) ==
    IF i > Len(files) \/ st.threw # "no" THEN st
    ELSE processFrom(processYamlFile(st, files[i], yd, e), files, i + 1, yd, e)

\* processYamlFiles(sqlDir), as one call
processYamlFiles(yd, sd, e) ==
    processFrom([sql |-> sd, count |-> 0, console |-> <<>>, threw |-> "no"],
                findYamlFiles(yd, sd), 1, yd, e)

-----------------------------------------------------------------------------
(* The build commands: buildData (buildDataFile, writeDataFile) and         *)
(* buildSchema (getSortedSqlFiles, buildSchemaFile, writeSchemaFile).  The  *)
(* combined artifact is [exists |-> TRUE, header, parts]: which header it   *)
(* starts with, and the contributing files in the order they were appended. *)

toLowerChar(c) ==
    IF \E i \in 1..26 : UpperLetters[i] = c
    THEN LowerLetters[CHOOSE i \in 1..26 : UpperLetters[i] = c]
    ELSE c

\* String.prototype.toLowerCase
toLowerCase(str) == [i \in 1..Len(str) |-> toLowerChar(str[i])]

\* PATTERNS.FILE_NUMBER.test(file): /\d+/
FILE_NUMBER(file) == \E i \in 1..Len(file) : \E d \in 1..10 : file[i] = Digits[d]

\* the schema built when no name is given
schemaName == <<"p", "u", "b", "l", "i", "c">>

\* a piece of a combined artifact's text
Segment(kind, of) == [kind |-> kind, of |-> of]

\* generateSqlHeader(schemaName, version): the banner, then the schema setup
generateSqlHeader(schema) ==
    <<Segment("banner", schema), Segment("DROP SCHEMA", schema)>>
    \o (IF schema = schemaName THEN <<Segment("DELETE FROM vault.secrets", schema)>>
        ELSE <<>>)
    \o <<Segment("CREATE SCHEMA", schema), Segment("CREATE EXTENSION", schema),
         Segment("SET search_path", schema)>>

\* the text buildDataFile starts dataContent with
dataHeader == <<Segment("banner", "data"), Segment("SET search_path", "data")>>

\* what the loops of buildSchemaFile and buildDataFile append for one file:
\* the comment with its name, the SET search_path line, the file's content
appended(file, content) ==
    <<Segment("comment", file), Segment("SET search_path", file),
      [kind |-> "content", of |-> file, content |-> content]>>

\* the combined artifact: which header it starts with, the contributing files
\* in the order they were appended, and its text
Artifact(header, d, files) ==
    [exists |-> TRUE, header |-> header,
     parts |-> [i \in 1..Len(files) |-> [file |-> files[i], content |-> d.files[files[i]]]],
     text |-> (IF header = "schema" THEN generateSqlHeader(schemaName) ELSE dataHeader)
              \o Flatten([i \in 1..Len(files) |-> appended(files[i], d.files[files[i]])])]

\* the YAML files converted first, when the instance has a yaml directory
\* (the sql directory is created when it is not there)
convertYamlFirst(yd, sd, e) ==
    IF yd.exists
    THEN processYamlFiles(yd, IF sd.exists THEN sd ELSE EmptyDir, e)
    ELSE [sql |-> sd, count |-> 0, console |-> <<>>, threw |-> "no"]

\* the numbered .sql files of the sql directory, sorted
dataSqlFiles(sd) ==
    sort({f \in readdirSync(sd) : endsWith(toLowerCase(f), E_sql) /\ FILE_NUMBER(f)})

\* the rest of buildDataFile, on what the conversion left
appendSqlFiles(st) ==
    IF st.threw # "no"
    THEN [threw |-> st.threw, sql |-> st.sql, console |-> st.console]
    ELSE IF ~st.sql.exists
    THEN [threw |-> "no", sql |-> st.sql,
          console |-> Append(st.console, Printed("warn", <<"No SQL directory">>)),
          content |-> Artifact("data", st.sql, <<>>)]
    ELSE [threw |-> "no", sql |-> st.sql,
          console |-> IF dataSqlFiles(st.sql) = <<>>
                      THEN Append(st.console, Printed("warn", <<"No SQL files">>))
                      ELSE st.console,
          content |-> Artifact("data", st.sql, dataSqlFiles(st.sql))]

\* (faulty variant of buildDataFile: the instance directory is not looked for)
buildDataFile_noInstanceCheck(inst, yd, sd, e) ==
    appendSqlFiles(convertYamlFirst(yd, sd, e))

\* buildDataFile(instanceName, version): inst tells whether the instance
\* directory exists, yd and sd are its yaml and sql directories.  The result
\* holds the exception thrown ("no" when none), the sql directory as the call
\* leaves it, what was printed and, when nothing was thrown, the content
\* returned.
buildDataFile(inst, yd, sd, e) ==
    IF ~inst
    THEN [threw |-> "Error", sql |-> sd, console |-> <<>>]
    ELSE appendSqlFiles(convertYamlFirst(yd, sd, e))

getSortedSqlFiles(sd, schema) ==
    sort({f \in readdirSync(sd) :
            /\ ~startsWith(f, schema)
            /\ (endsWith(f, E_sql) \/ endsWith(f, E_ddl))
            /\ FILE_NUMBER(f)})

buildSchemaFile(sd, schema, sqlFiles) == Artifact("schema", sd, sqlFiles)

-----------------------------------------------------------------------------
(* Configuration: loadConfig (config.ts).  Paths are not taken apart, so    *)
(* they are held as plain strings.  A configuration file is Missing,        *)
(* Unparsable (JSON.parse throws) or Parsed(settings), settings being the   *)
(* function from the keys it sets to their values.                          *)

Missing == [exists |-> FALSE]
Unparsable == [exists |-> TRUE, parses |-> FALSE]
Parsed(settings) == [exists |-> TRUE, parses |-> TRUE, settings |-> settings]

DEFAULT_CONFIG == [schemaBase |-> "./schema", distPath |-> "./dist"]

\* the files of configPaths that the loop reads before it breaks: the file it
\* breaks on is the first that exists and parses
readUpTo(files) ==
    IF \E i \in 1..Len(files) : files[i].exists /\ files[i].parses
    THEN CHOOSE i \in 1..Len(files) :
            /\ files[i].exists /\ files[i].parses
            /\ \A j \in 1..(i - 1) : ~(files[j].exists /\ files[j].parses)
    ELSE Len(files)

\* { ...config, ...fileConfig } for the keys of BltConfig that are read later
merged(cfg, settings) ==
    [k \in DOMAIN cfg |-> IF k \in DOMAIN settings THEN settings[k] ELSE cfg[k]]

\* process.env.NAME as a condition: set and not the empty string
truthy(e, nm) == nm \in DOMAIN e /\ e[nm] # ""

\* "Override with environment variables"
overridden(cfg, e) ==
    [schemaBase |-> IF truthy(e, "BLT_SCHEMA_BASE") THEN e["BLT_SCHEMA_BASE"]
                    ELSE cfg.schemaBase,
     distPath |-> IF truthy(e, "BLT_DIST_PATH") THEN e["BLT_DIST_PATH"]
                  ELSE cfg.distPath]

\* loadConfig(): files are configPaths' files in order, e is process.env
loadConfig(files, e) ==
    LET last == readUpTo(files)
        hit == last >= 1 /\ files[last].exists /\ files[last].parses
    IN  [config |-> overridden(IF hit THEN merged(DEFAULT_CONFIG, files[last].settings)
                               ELSE DEFAULT_CONFIG, e),
         console |->
            [i \in 1..last |->
                IF ~files[i].exists THEN Printed("none", i)
                ELSE IF files[i].parses THEN Printed("Loaded config from", i)
                ELSE Printed("Failed to parse config file", i)]]

-----------------------------------------------------------------------------
(* Tag cleanup: cleanupTags (commands/cleanup/tags.ts).                     *)
(*                                                                          *)
(* A file of the yaml directory is what yaml.load makes of it: YAMLException*)
(* or Loaded(doc).  A document is [hasRows, rows, props]: hasRows tells     *)
(* whether doc.rows is there; rows holds, for each item of doc.rows, 0 when *)
(* the item is null or has no `row`, and otherwise the identity of the      *)
(* object that is its row.props; props gives each such object its `tags`    *)
(* value: Undefined when it has none, Arr of tags, or another value.  Two   *)
(* items with the same identity share one object, as yaml.load returns for  *)
(* an anchor and its aliases.                                               *)

TagDoc(rows, props) == [hasRows |-> TRUE, rows |-> rows, props |-> props]

NoRowsDoc == [hasRows |-> FALSE, rows |-> <<>>, props |-> <<>>]

\* options.minCount ?? 4
minTagCount(opt) == IF opt = {} THEN 4 ELSE CHOOSE n \in opt : TRUE

\* the files the first pass pushes on fileTagData
inFileTagData(file) == file.ok /\ file.v.hasRows

\* item?.props?.tags of item k of doc.rows
tagsOf(doc, k) == IF doc.rows[k] = 0 THEN Undefined ELSE doc.props[doc.rows[k]]

\* the places the first pass counts a tag at: <<file, item, position>>
tagUses(files) ==
    {u \in (1..Len(files)) \X (1..MaxRows) \X (1..MaxItems) :
        /\ inFileTagData(files[u[1]])
        /\ u[2] <= Len(files[u[1]].v.rows)
        /\ tagsOf(files[u[1]].v, u[2]).t = "arr"
        /\ u[3] <= Len(tagsOf(files[u[1]].v, u[2]).items)}

tagAt(files, u) == tagsOf(files[u[1]].v, u[2]).items[u[3]]

\* tagCounts after the first pass
tagCounts(files) ==
    [tag \in {tagAt(files, u) : u \in tagUses(files)} |->
        Cardinality({u \in tagUses(files) : tagAt(files, u) = tag})]

\* validTags
validTags(files, opt) ==
    {tag \in DOMAIN tagCounts(files) : tagCounts(files)[tag] >= minTagCount(opt)}

\* an item whose tags originalTags were filtered to filteredTags
filteredItem(st, id, originalTags, filteredTags, dry) ==
    IF Len(filteredTags) = Len(originalTags) THEN st
    ELSE [st EXCEPT
             !.itemsModified = @ + 1,
             !.modified = TRUE,
             !.doc.props[id] = IF dry THEN @
                               ELSE IF Len(filteredTags) > 0 THEN Arr(filteredTags)
                               ELSE Undefined]

\* the second pass on item k of a file's rows; originalTags.filter throws a
\* TypeError when tags is there and is not an array
filterItem(st, k, valid, dry) ==
    LET keep(tag) == tag \in valid
    IN  IF tagsOf(st.doc, k).t = "undef" THEN st
        ELSE IF tagsOf(st.doc, k).t # "arr" THEN [st EXCEPT !.threw = TRUE]
        ELSE filteredItem(st, st.doc.rows[k], tagsOf(st.doc, k).items,
                          SelectSeq(tagsOf(st.doc, k).items, keep), dry)

RECURSIVE filterFrom(_, _, _, _)
filterFrom(st, k, valid, dry) ==
    IF st.threw \/ k > Len(st.doc.rows) THEN st
    ELSE filterFrom(filterItem(st, k, valid, dry), k + 1, valid, dry)

\* yaml.dump(doc, {noRefs: true, ...}), read back: every item has its own
\* object
dump(doc) ==
    TagDoc([k \in 1..Len(doc.rows) |-> IF doc.rows[k] = 0 THEN 0 ELSE k],
           [k \in {j \in 1..Len(doc.rows) : doc.rows[j] # 0} |-> tagsOf(doc, k)])

\* the end of the second pass's loop body for file i, its rows filtered as r
fileFiltered(acc, i, r, dry) ==
    IF r.threw
    THEN [acc EXCEPT !.threw = TRUE, !.docs[i] = Loaded(r.doc)]
    ELSE IF ~r.modified THEN acc
    ELSE [acc EXCEPT
             !.docs[i] = Loaded(r.doc),
             !.disk[i] = IF dry THEN @ ELSE Loaded(dump(r.doc)),
             !.written = IF dry THEN @ ELSE @ \cup {i},
             !.filesModified = @ + 1,
             !.itemsModified = @ + r.itemsModified]

\* the second pass from file i on
RECURSIVE secondPass(_, _, _, _)
secondPass(acc, i, valid, dry) ==
    IF acc.threw \/ i > Len(acc.docs) THEN acc
    ELSE IF ~inFileTagData(acc.docs[i]) THEN secondPass(acc, i + 1, valid, dry)
    ELSE secondPass(
            fileFiltered(acc, i,
                         filterFrom([doc |-> acc.docs[i].v, itemsModified |-> 0,
                                     modified |-> FALSE, threw |-> FALSE],
                                    1, valid, dry),
                         dry),
            i + 1, valid, dry)

\* what cleanupTags returns, and what it leaves: the parsed documents, the
\* files, and which of them were written
returned(acc, total, valid) ==
    [threw |-> acc.threw, docs |-> acc.docs, disk |-> acc.disk, written |-> acc.written,
     stats |-> IF acc.threw THEN <<>>
               ELSE [totalTags |-> total, validTags |-> valid,
                     removedTags |-> total - valid,
                     filesModified |-> acc.filesModified,
                     itemsModified |-> acc.itemsModified]]

\* cleanupTags(instance, {minCount, dryRun}) on the .yml files of the
\* instance's yaml directory
cleanupTags(files, opt, dry) ==
    returned(secondPass([docs |-> files, disk |-> files, written |-> {},
                         filesModified |-> 0, itemsModified |-> 0, threw |-> FALSE],
                        1, validTags(files, opt), dry),
             Cardinality(DOMAIN tagCounts(files)),
             Cardinality(validTags(files, opt)))

-----------------------------------------------------------------------------
(* Inputs *)

\* all sequences over S of length at most n
RECURSIVE SeqsUpTo(_, _)
SeqsUpTo(S, n) ==
    IF n = 0 THEN {<<>>}
    ELSE LET shorter == SeqsUpTo(S, n - 1)
         IN  shorter \cup {Append(q, x) : q \in shorter, x \in S}

S_OBrien == <<"O","'","B","r","i","e","n">>

Strings ==
    SeqsUpTo({"a", "'"}, MaxStrLen)
    \cup {W_NULL, <<"n","u","l","l">>, <<"N","u","l","l">>, <<"n","U","l","L">>,
          <<"N","U","L","L","S">>, <<"N","U","L">>,
          S_OBrien, <<"x">>, <<"y">>, <<"a","\\","'">>, <<"\"">>}

Numbers == {0, 10, 30, 15, 5, 0 - 20, 0 - 5, 120, 1205}

Scalars ==
    {Null, Undefined, Bool(TRUE), Bool(FALSE)}
    \cup {Num(n) : n \in Numbers} \cup {Str(s) : s \in Strings}

Items ==
    {Str(<<"x">>), Str(<<"y">>), Str(<<"'">>), Str(<<>>), Str(W_NULL), Num(10),
     Bool(TRUE), Null}

Arrays == {Arr(q) : q \in SeqsUpTo(Items, MaxItems)}
          \cup {Arr(<<Arr(<<Num(10), Null, Str(<<"x">>)>>), Obj(<<>>)>>)}

C_k == <<"k">>

Objects ==
    {Obj(<<>>),
     Obj(<< <<C_k, Num(15)>> >>),
     Obj(<< <<C_id, Num(15)>>, <<C_order, Num(30)>> >>),
     Obj(<< <<<<"a","'","b">>, Str(<<"'">>)>>, <<C_k, Bool(FALSE)>> >>),
     Obj(<< <<C_k, Obj(<< <<C_id, Num(5)>>, <<C_k, Null>> >>)>>,
            <<C_id, Arr(<<Str(<<"x","'">>), Num(10)>>)>> >>),
     Obj(<< <<C_k, Obj(<<>>)>>, <<C_order, Str(<<"n","u","l","l">>)>>,
            <<C_id, Str(<<>>)>> >>)}

Values == Scalars \cup Arrays \cup Objects

Columns ==
    {NoName, <<>>, C_props, C_perms, C_roles, <<"t","a","g","s">>, C_id, C_uuid,
     <<"w","i","d","t","h">>, <<"c","o","u","n","t">>, <<"v","a","l","i","d">>,
     <<"s","o","r","t","_","o","r","d","e","r">>,
     <<"u","u","i","d","_","o","r","d","e","r">>,
     <<"u","s","e","r","_","i","d">>}

LineKeys == {"function", "procedure", "table", "none"}

\* lines without a value (with and without a space), with the value f, and
\* with the value t between spaces
Lines ==
    {l \in [key : LineKeys, sp : BOOLEAN, body : {<<>>, <<"f">>, <<"t">>}] :
        /\ l.body = <<"f">> => ~l.sp
        /\ l.body = <<"t">> => l.sp}

Documents == SeqsUpTo(Lines, MaxLines)

C_name == <<"n","a","m","e">>
C_active == <<"a","c","t","i","v","e">>
C_count == <<"c","o","u","n","t">>

\* row mappings of at most two keys, in either key order
FamilyRows ==
    {Obj(<<>>),
     Obj(<< <<C_id, Num(10)>> >>),
     Obj(<< <<C_name, Str(<<"a">>)>> >>),
     Obj(<< <<C_id, Num(10)>>, <<C_name, Str(<<"a">>)>> >>),
     Obj(<< <<C_name, Str(<<"a">>)>>, <<C_id, Num(10)>> >>),
     Obj(<< <<C_id, Str(<<"a">>)>>, <<C_name, Num(10)>> >>),
     Obj(<< <<C_name, Num(10)>>, <<C_id, Str(<<"a">>)>> >>)}

\* [{id:1,name:'a'},{id:2,name:'b'}]
ExampleInsertRows ==
    << Obj(<< <<C_id, Num(10)>>, <<C_name, Str(<<"a">>)>> >>),
       Obj(<< <<C_id, Num(20)>>, <<C_name, Str(<<"b">>)>> >>) >>

\* [{active:true,count:3}]
ExampleCallRows == << Obj(<< <<C_active, Bool(TRUE)>>, <<C_count, Num(30)>> >>) >>

\* the first row of the README's table example, and a row with a placeholder
ExampleReadmeRows ==
    << Obj(<< <<C_id, Str(<<"u","s","e","r","-","0","0","1">>)>>,
              <<C_active, Bool(TRUE)>>, <<C_props, Obj(<<>>)>> >>),
       Obj(<< <<C_id, Str(<<"$","{","A","}">>)>>, <<C_active, Null>> >>) >>

RowSequences ==
    SeqsUpTo(FamilyRows, MaxRows)
    \cup {ExampleInsertRows, ExampleCallRows, ExampleReadmeRows}

Types == {"table", "function", "procedure"}

\* the marker key of a target kind, as a key of the parsed document
TypeKey(ty) ==
    CASE ty = "table" -> <<"t","a","b","l","e">>
      [] ty = "function" -> <<"f","u","n","c","t","i","o","n">>
      [] ty = "procedure" -> <<"p","r","o","c","e","d","u","r","e">>

\* the target name used with each kind
TargetName(ty) ==
    CASE ty = "table" -> <<"t">> [] ty = "function" -> <<"f">>
      [] ty = "procedure" -> <<"p">>

Wrapped(rows) == [i \in 1..Len(rows) |-> Obj(<< <<K_row, rows[i]>> >>)]

\* The parsed documents of kind ty: a mapping with the marker and a `rows`
\* sequence, or a top-level sequence; the items either carry their mapping
\* under a `row` key or are the mapping itself.
ParsedDocuments(ty) ==
    LET marker == <<TypeKey(ty), Str(TargetName(ty))>>
    IN  {Obj(<<marker, <<K_rows, Arr(Wrapped(q))>> >>) : q \in RowSequences}
        \cup {Obj(<<marker, <<K_rows, Arr(q)>> >>) : q \in RowSequences}
        \cup {Arr(Wrapped(q)) : q \in RowSequences}
        \cup {Arr(q) : q \in RowSequences}
        \cup {Obj(<<marker, <<C_id, Num(10)>> >>), Obj(<<marker, <<K_rows, Null>> >>),
              Obj(<<marker, <<K_row, Obj(<< <<C_id, Num(10)>> >>)>> >>),
              Arr(<<Null>>), Null, Str(<<"a">>)}

Environments == {<<>>, (<<"A">> :> <<"v">>)}

\* what yaml.load can return for a document: the documents above, and
\* documents that are empty, a scalar, or a mapping without a usable `rows`
ExtractDocuments ==
    UNION {ParsedDocuments(ty) : ty \in Types}
    \cup {Undefined, Null, Bool(FALSE), Bool(TRUE), Num(0), Num(15), Str(<<>>),
          Str(K_rows), Date, Arr(<<>>), Obj(<<>>),
          Obj(<< <<K_rows, Str(<<"a">>)>> >>),
          Obj(<< <<K_rows, Obj(<< <<C_id, Num(10)>> >>)>> >>),
          Obj(<< <<K_rows, Date>> >>),
          Obj(<< <<K_rows, Arr(<<Num(10), Null>>)>> >>),
          Arr(<<Num(10), Str(<<"a">>), Date>>)}

\* file names: two sources whose order by code units (1, B, a) is not their
\* order by letters, a source with a second .yml in its name, and an SQL file
N_1 == <<"1">> \o E_yml
N_B == <<"B">> \o E_yml
N_a2 == <<"a">> \o E_yml \o E_yml
N_sql == <<"1">> \o E_sql

YmlNames == {N_1, N_B, N_a2}

Line(key, sp, body) == [key |-> key, sp |-> sp, body |-> body]

OneRow == Wrapped(<<Obj(<< <<C_id, Num(10)>>, <<C_name, Str(<<"a">>)>> >>)>>)

\* table: t / rows: - row: {id: 1, name: a}
F_table ==
    [kind |-> "yaml",
     doc |-> <<Line("table", TRUE, <<"t">>), Line("none", FALSE, <<"rows:">>)>>,
     loaded |-> Loaded(Obj(<< <<TypeKey("table"), Str(<<"t">>)>>,
                              <<K_rows, Arr(OneRow)>> >>))]

\* function: f / rows: - row: {id: 1, name: a}
F_function ==
    [kind |-> "yaml",
     doc |-> <<Line("function", TRUE, <<"f">>), Line("none", FALSE, <<"rows:">>)>>,
     loaded |-> Loaded(Obj(<< <<TypeKey("function"), Str(<<"f">>)>>,
                              <<K_rows, Arr(OneRow)>> >>))]

\* rows: - row: {id: 1, name: a}   (no marker)
F_unclassifiable ==
    [kind |-> "yaml",
     doc |-> <<Line("none", FALSE, <<"rows:">>)>>,
     loaded |-> Loaded(Obj(<< <<K_rows, Arr(OneRow)>> >>))]

\* table: t / rows: [   (a marker, and text that is not YAML)
F_malformed ==
    [kind |-> "yaml",
     doc |-> <<Line("table", TRUE, <<"t">>), Line("none", FALSE, <<"rows: [">>)>>,
     loaded |-> YAMLException]

YamlContents == {F_table, F_function, F_unclassifiable, F_malformed}

\* an SQL file that is in the sql directory before the run
F_oldSql == [kind |-> "sql", text |-> <<"-- old">>]

\* an entry of one of the two directories: <<directory, name, content>>
Entries ==
    ({"yaml", "sql"} \X YmlNames \X YamlContents) \cup {<<"sql", N_sql, F_oldSql>>}

\* the sets of at most n entries, no two of them the same file
RECURSIVE EntrySets(_)
EntrySets(n) ==
    IF n = 0 THEN {{}}
    ELSE LET smaller == EntrySets(n - 1)
         IN  smaller \cup
             UNION {{S \cup {x} :
                        x \in {y \in Entries :
                                 \A z \in S : <<z[1], z[2]>> # <<y[1], y[2]>>}} :
                    S \in smaller}

\* the directory d of a set of entries
DirOf(S, d) ==
    LET mine == {x \in S : x[1] = d}
    IN  Dir([nm \in {x[2] : x \in mine} |->
                (CHOOSE x \in mine : x[2] = nm)[3]])

\* the yaml directory (there or not) and the sql directory processYamlFiles
\* is called on
BatchDirectories ==
    UNION {{[yaml |-> y, sql |-> DirOf(S, "sql")] :
               y \in {DirOf(S, "yaml")}
                      \cup (IF DirOf(S, "yaml") = EmptyDir THEN {Absent} ELSE {})} :
           S \in EntrySets(MaxFiles)}

\* the directories a build command finds: an instance with its yaml and sql
\* directories, each there or not, or no instance directory at all
BuildDirectories ==
    {[inst |-> TRUE, yaml |-> d.yaml, sql |-> d.sql] : d \in BatchDirectories}
    \cup {[inst |-> TRUE, yaml |-> d.yaml, sql |-> Absent] :
             d \in {b \in BatchDirectories : b.sql = EmptyDir}}
    \cup {[inst |-> FALSE, yaml |-> Absent, sql |-> Absent]}

\* names of files of a directory of hand-written SQL: suffixes in either
\* case and of another kind, a name without a digit, a name that starts with
\* the schema's name, and names whose order by code units is neither their
\* order as numbers (10, 9) nor their order by letters (B2, a3)
N_SQL == <<"1", ".", "S", "Q", "L">>
N_ddl == <<"2">> \o E_ddl
N_DDL == <<"2", ".", "D", "D", "L">>
N_plain == <<"a">> \o E_sql
N_public == schemaName \o <<"1">> \o E_sql
N_10 == <<"1", "0">> \o E_sql
N_9 == <<"9">> \o E_sql
N_txt == <<"1", ".", "t", "x", "t">>
N_B2 == <<"B", "2">> \o E_sql
N_a3 == <<"a", "3">> \o E_sql

AggregateNames ==
    {N_sql, N_SQL, N_ddl, N_DDL, N_plain, N_public, N_10, N_9, N_txt, N_B2, N_a3}

\* a hand-written file: its text says which file it is
HandWritten(nm) == [kind |-> "sql", text |-> <<"-- ">> \o nm]

\* directories of at most MaxFiles hand-written files
AggregateDirectories ==
    {Dir([nm \in S |-> HandWritten(nm)]) :
        S \in {T \in SUBSET AggregateNames : Cardinality(T) <= MaxFiles}}

\* the instances a data build is run on again and again: a yaml directory of
\* sources that compile or have no marker, and a sql directory that is not
\* there, is empty or holds a hand-written file
N_2 == <<"2">> \o E_yml

RebuildSources ==
    UNION {[D -> {F_table, F_function, F_unclassifiable}] :
              D \in {T \in SUBSET {N_1, N_2, N_B} : T # {} /\ Cardinality(T) <= MaxFiles}}

RebuildDirectories ==
    {[yaml |-> Dir(f), sql |-> d] :
        f \in RebuildSources, d \in {Absent, EmptyDir, Dir((N_10 :> F_oldSql))}}

\* documents with tags: tag lists with a tag once, twice and beside another
\* tag, an empty list, a row without tags and an item without a row, two items
\* that share one props object, a `tags` that is a plain string, a document
\* without rows and a file that is not YAML
T_a == Str(<<"a">>)
T_b == Str(<<"b">>)

TagFileStates ==
    {YAMLException, Loaded(NoRowsDoc),
     Loaded(TagDoc(<<1>>, <<Arr(<<T_a, T_b>>)>>)),
     Loaded(TagDoc(<<1, 2>>, <<Arr(<<T_a>>), Arr(<<T_a>>)>>)),
     Loaded(TagDoc(<<1, 0>>, <<Arr(<<T_a, T_a>>)>>)),
     Loaded(TagDoc(<<1, 1>>, <<Arr(<<T_a, T_b>>)>>)),
     Loaded(TagDoc(<<1>>, <<Arr(<<T_b>>)>>)),
     Loaded(TagDoc(<<1, 2>>, <<Arr(<<>>), Undefined>>)),
     Loaded(TagDoc(<<1, 2>>, <<Arr(<<T_a, T_b>>), Arr(<<T_b>>)>>)),
     Loaded(TagDoc(<<1, 2>>, <<Arr(<<T_b>>), T_a>>))}

TagFileLists == SeqsUpTo(TagFileStates, MaxTagFiles)

MinCounts == {{}, {1}, {2}, {3}}

\* what configuration file number i can be: missing, unparsable, or setting
\* some of the two paths, to values that name the file
ConfigFileStates(i) ==
    LET v == <<"./file1", "./file2", "./file3">>[i]
    IN  {Missing, Unparsable}
        \cup {Parsed([k \in K |-> v \o "/" \o k]) :
                 K \in SUBSET {"schemaBase", "distPath"}}

ConfigFileLists ==
    {<<a, b, c>> : a \in ConfigFileStates(1), b \in ConfigFileStates(2),
                   c \in ConfigFileStates(3)}

\* process.env with each of the two variables unset, empty or set
ConfigEnvironments ==
    UNION {[D -> {"", "./env"}] : D \in SUBSET {"BLT_SCHEMA_BASE", "BLT_DIST_PATH"}}

\* the pieces strings with placeholders are put together from: one placeholder
\* of each style and two plain characters
P_braced == <<"$", "{", "A", "}">>
P_curly == <<"{", "B", "}">>
P_bare == <<"$", "C">>

Parts == {P_braced, P_curly, P_bare, <<"x">>, <<"-">>}

PlaceholderStrings == {Flatten(q) : q \in SeqsUpTo(Parts, MaxParts)}

EnvNames == {<<"A">>, <<"B">>, <<"C">>}

\* values of environment variables: empty, plain, and values that themselves
\* hold the text of a placeholder
EnvValues == {<<>>, <<"v">>, P_bare, P_curly}

\* process.env with each of the names unset or set to one of the values
PlaceholderEnvironments ==
    UNION {[D -> EnvValues] : D \in SUBSET EnvNames}

-----------------------------------------------------------------------------
(* Formatting one value: toSqlLiteral and formatParam *)

\* the directories and the build command idle
NoFiles ==
    /\ instanceDir = FALSE /\ yamlDir = Absent /\ sqlDir = Absent
    /\ yamlFiles = <<>> /\ index = 0 /\ count = 0 /\ console = <<>> /\ runs = <<>>
    /\ dist = Absent /\ exitCode = "none"

\* loadConfig was not called
NoConfig == configFiles = <<>> /\ config = <<>>

\* cleanupTags was not called
NoCleanup == tagFiles = <<>> /\ dryRun = FALSE /\ minCount = {} /\ cleaned = <<>>

\* no result of the compiler yet
NoResults ==
    /\ literal = <<>> /\ param = <<>> /\ target = NoTarget
    /\ sqlContent = Ok(<<>>)
    /\ resolved = <<>> /\ extracted = <<>>

Blank == NoResults /\ NoConfig /\ NoCleanup

InitFormat ==
    /\ pc = "input"
    /\ value \in Values
    /\ column \in Columns
    /\ yamlContent = <<>>
    /\ parsed = Null /\ name = <<>> /\ type = "table" /\ env = <<>>
    /\ Blank /\ NoFiles

ToSqlLiteral ==
    /\ pc = "input"
    /\ literal' = toSqlLiteral(value, column)
    /\ pc' = "literal"
    /\ UNCHANGED <<value, column, param, yamlContent, target, parsed, name, type,
                   env, sqlContent>>
    /\ UNCHANGED <<resolved, extracted, batchVars, buildVars>>
    /\ UNCHANGED toolVars

FormatParam ==
    /\ pc = "input"
    /\ param' = formatParam(value, column)
    /\ pc' = "param"
    /\ UNCHANGED <<value, column, literal, yamlContent, target, parsed, name, type,
                   env, sqlContent>>
    /\ UNCHANGED <<resolved, extracted, batchVars, buildVars>>
    /\ UNCHANGED toolVars

NextFormat == ToSqlLiteral \/ FormatParam

SpecFormat == InitFormat /\ [][NextFormat]_vars

-----------------------------------------------------------------------------
(* Detecting the target of one document *)

InitDetect ==
    /\ pc = "input"
    /\ yamlContent \in Documents
    /\ value = Null /\ column = NoName
    /\ parsed = Null /\ name = <<>> /\ type = "table" /\ env = <<>>
    /\ Blank /\ NoFiles

DetectTarget ==
    /\ pc = "input"
    /\ target' = detectTarget(yamlContent)
    /\ pc' = "detected"
    /\ UNCHANGED <<value, column, literal, param, yamlContent, parsed, name, type,
                   env, sqlContent>>
    /\ UNCHANGED <<resolved, extracted, batchVars, buildVars>>
    /\ UNCHANGED toolVars

NextDetect == DetectTarget

SpecDetect == InitDetect /\ [][NextDetect]_vars

-----------------------------------------------------------------------------
(* Compiling one document: yamlToSql *)

InitCompile ==
    /\ pc = "input"
    /\ type \in Types
    /\ name = TargetName(type)
    /\ parsed \in ParsedDocuments(type)
    /\ env \in Environments
    /\ value = Null /\ column = NoName
    /\ yamlContent = <<>>
    /\ Blank /\ NoFiles

YamlToSql ==
    /\ pc = "input"
    /\ sqlContent' = yamlToSql(parsed, name, type, env)
    /\ pc' = "compiled"
    /\ UNCHANGED <<value, column, literal, param, yamlContent, target, parsed, name,
                   type, env>>
    /\ UNCHANGED <<resolved, extracted, batchVars, buildVars>>
    /\ UNCHANGED toolVars

NextCompile == YamlToSql

SpecCompile == InitCompile /\ [][NextCompile]_vars

-----------------------------------------------------------------------------
(* Substituting in one string: substituteEnvVars *)

InitSubst ==
    /\ pc = "input"
    /\ value \in {Str(str) : str \in PlaceholderStrings}
    /\ env \in PlaceholderEnvironments
    /\ column = NoName
    /\ yamlContent = <<>>
    /\ parsed = Null /\ name = <<>> /\ type = "table"
    /\ Blank /\ NoFiles

SubstituteEnvVars ==
    /\ pc = "input"
    /\ resolved' = substituteEnvVars(value.s, env)
    /\ pc' = "resolved"
    /\ UNCHANGED <<formatVars, compileVars, env, extracted, batchVars, buildVars>>
    /\ UNCHANGED toolVars

NextSubst == SubstituteEnvVars

SpecSubst == InitSubst /\ [][NextSubst]_vars

-----------------------------------------------------------------------------
(* Extracting the rows of one document: parseYamlRows (yamlToJson) *)

InitExtract ==
    /\ pc = "input"
    /\ parsed \in ExtractDocuments
    /\ value = Null /\ column = NoName
    /\ yamlContent = <<>> /\ name = <<>> /\ type = "table" /\ env = <<>>
    /\ Blank /\ NoFiles

ParseYamlRows ==
    /\ pc = "input"
    /\ extracted' = parseYamlRows(parsed)
    /\ pc' = "extracted"
    /\ UNCHANGED <<formatVars, compileVars, env, resolved, batchVars, buildVars>>
    /\ UNCHANGED toolVars

NextExtract == ParseYamlRows

SpecExtract == InitExtract /\ [][NextExtract]_vars

-----------------------------------------------------------------------------
(* Converting the YAML files of a directory: processYamlFiles, run once     *)
(* and again on what the run left                                           *)

InitBatch ==
    /\ pc = "start"
    /\ \E d \in BatchDirectories : yamlDir = d.yaml /\ sqlDir = d.sql
    /\ instanceDir = TRUE
    /\ yamlFiles = <<>> /\ index = 0 /\ count = 0 /\ console = <<>> /\ runs = <<>>
    /\ dist = Absent /\ exitCode = "none"
    /\ value = Null /\ column = NoName
    /\ yamlContent = <<>> /\ parsed = Null /\ name = <<>> /\ type = "table"
    /\ env = <<>>
    /\ Blank

\* const yamlFiles = findYamlFiles(sqlDir); let count = 0
FindYamlFiles ==
    /\ pc = "start"
    /\ yamlFiles' = findYamlFiles(yamlDir, sqlDir)
    /\ index' = 0 /\ count' = 0 /\ console' = <<>>
    /\ pc' = "loop"
    /\ UNCHANGED <<formatVars, compileVars, env, resolved, extracted, yamlDir,
                   sqlDir, runs, buildVars>>
    /\ UNCHANGED toolVars

\* what a run leaves behind
Outcome(st, threw) ==
    [found |-> yamlFiles, sql |-> st.sql, count |-> st.count,
     console |-> st.console, threw |-> threw]

\* where an iteration that ended as st leaves the run
iterated(st) ==
    /\ sqlDir' = st.sql /\ count' = st.count /\ console' = st.console
    /\ index' = index + 1
    /\ IF st.threw = "no"
       THEN pc' = "loop" /\ runs' = runs
       ELSE pc' = "thrown" /\ runs' = Append(runs, Outcome(st, st.threw))

\* one iteration of the loop; an exception leaves processYamlFiles
ProcessYamlFile ==
    /\ pc = "loop" /\ index < Len(yamlFiles)
    /\ iterated(processYamlFile([sql |-> sqlDir, count |-> count,
                                 console |-> console, threw |-> "no"],
                                yamlFiles[index + 1], yamlDir, env))
    /\ UNCHANGED <<formatVars, compileVars, env, resolved, extracted, yamlDir,
                   yamlFiles, buildVars>>
    /\ UNCHANGED toolVars

\* return count
Return ==
    /\ pc = "loop" /\ index = Len(yamlFiles)
    /\ pc' = "returned"
    /\ runs' = Append(runs, Outcome([sql |-> sqlDir, count |-> count,
                                     console |-> console], "no"))
    /\ UNCHANGED <<formatVars, compileVars, env, resolved, extracted, yamlDir,
                   sqlDir, yamlFiles, index, count, console, buildVars>>
    /\ UNCHANGED toolVars

\* processYamlFiles is called again on the directories as they are now
RunAgain ==
    /\ pc \in {"returned", "thrown"} /\ Len(runs) < MaxRuns
    /\ pc' = "start"
    /\ yamlFiles' = <<>> /\ index' = 0 /\ count' = 0 /\ console' = <<>>
    /\ UNCHANGED <<formatVars, compileVars, env, resolved, extracted, yamlDir,
                   sqlDir, runs, buildVars>>
    /\ UNCHANGED toolVars

NextBatch == FindYamlFiles \/ ProcessYamlFile \/ Return \/ RunAgain

SpecBatch == InitBatch /\ [][NextBatch]_vars

-----------------------------------------------------------------------------
(* The build commands, each run once on the directories as they are         *)

InitBuild ==
    /\ pc = "input"
    /\ \E d \in BuildDirectories :
          instanceDir = d.inst /\ yamlDir = d.yaml /\ sqlDir = d.sql
    /\ yamlFiles = <<>> /\ index = 0 /\ count = 0 /\ console = <<>> /\ runs = <<>>
    /\ dist = Absent /\ exitCode = "none"
    /\ value = Null /\ column = NoName
    /\ yamlContent = <<>> /\ parsed = Null /\ name = <<>> /\ type = "table"
    /\ env = <<>>
    /\ Blank

\* buildData after buildDataFile: writeDataFile, or the catch clause
dataBuilt(built) ==
    /\ sqlDir' = built.sql
    /\ IF built.threw # "no"
       THEN /\ console' = Append(built.console, Printed("fatal", <<built.threw>>))
            /\ exitCode' = "1"
            /\ dist' = dist
       ELSE /\ console' = Append(built.console, Printed("success", <<"data">>))
            /\ exitCode' = "0"
            /\ dist' = built.content

\* blt build data: sqlDir is the instance's sql directory
BuildData ==
    /\ pc = "input"
    /\ dataBuilt(buildDataFile(instanceDir, yamlDir, sqlDir, env))
    /\ pc' = "builtData"
    /\ UNCHANGED <<formatVars, compileVars, env, resolved, extracted, instanceDir,
                   yamlDir, yamlFiles, index, count, runs>>
    /\ UNCHANGED toolVars

\* blt build schema: sqlDir is the schema's sql directory
BuildSchema ==
    /\ pc = "input"
    /\ IF ~sqlDir.exists
       THEN /\ console' = <<Printed("fatal", <<"Schema directory does not exist">>)>>
            /\ exitCode' = "1"
            /\ dist' = dist
       ELSE LET sqlFiles == getSortedSqlFiles(sqlDir, schemaName)
            IN  IF sqlFiles = <<>>
                THEN /\ console' = <<Printed("fatal", <<"No SQL files found">>)>>
                     /\ exitCode' = "1"
                     /\ dist' = dist
                ELSE /\ console' = <<Printed("success", <<"schema">>)>>
                     /\ exitCode' = "0"
                     /\ dist' = buildSchemaFile(sqlDir, schemaName, sqlFiles)
    /\ pc' = "builtSchema"
    /\ UNCHANGED <<formatVars, compileVars, env, resolved, extracted, instanceDir,
                   yamlDir, sqlDir, yamlFiles, index, count, runs>>
    /\ UNCHANGED toolVars

NextBuild == BuildData \/ BuildSchema

SpecBuild == InitBuild /\ [][NextBuild]_vars

-----------------------------------------------------------------------------
(* The build commands on a directory of hand-written SQL files (an instance *)
(* without a yaml directory, or a schema)                                   *)

InitAggregate ==
    /\ pc = "input"
    /\ instanceDir = TRUE /\ yamlDir = Absent
    /\ sqlDir \in AggregateDirectories
    /\ yamlFiles = <<>> /\ index = 0 /\ count = 0 /\ console = <<>> /\ runs = <<>>
    /\ dist = Absent /\ exitCode = "none"
    /\ value = Null /\ column = NoName
    /\ yamlContent = <<>> /\ parsed = Null /\ name = <<>> /\ type = "table"
    /\ env = <<>>
    /\ Blank

SpecAggregate == InitAggregate /\ [][NextBuild]_vars

-----------------------------------------------------------------------------
(* Data builds of one instance, one after the other, its YAML sources       *)
(* edited and its generated files cleaned up in between                     *)

InitRebuild ==
    /\ pc = "input"
    /\ instanceDir = TRUE
    /\ \E d \in RebuildDirectories : yamlDir = d.yaml /\ sqlDir = d.sql
    /\ yamlFiles = <<>> /\ index = 0 /\ count = 0 /\ console = <<>> /\ runs = <<>>
    /\ dist = Absent /\ exitCode = "none"
    /\ value = Null /\ column = NoName
    /\ yamlContent = <<>> /\ parsed = Null /\ name = <<>> /\ type = "table"
    /\ env = <<>>
    /\ Blank

\* what a finished build leaves for the record
Built == [exit |-> exitCode,
          created |-> {console[j].name :
                         j \in {k \in 1..Len(console) : console[k].kind = "created"}}]

\* the user removes a YAML source after a build
RemoveSource ==
    /\ pc = "builtData" /\ Len(runs) < MaxRuns
    /\ \E nm \in readdirSync(yamlDir) :
          yamlDir' = Dir([f \in readdirSync(yamlDir) \ {nm} |-> yamlDir.files[f]])
    /\ runs' = Append(runs, Built)
    /\ pc' = "input"
    /\ UNCHANGED <<formatVars, compileVars, env, resolved, extracted, sqlDir,
                   yamlFiles, index, count, console, buildVars, toolVars>>

\* the user takes the target marker out of a YAML source after a build
UnmarkSource ==
    /\ pc = "builtData" /\ Len(runs) < MaxRuns
    /\ \E nm \in readdirSync(yamlDir) :
          /\ yamlDir.files[nm] # F_unclassifiable
          /\ yamlDir' = Dir([yamlDir.files EXCEPT ![nm] = F_unclassifiable])
    /\ runs' = Append(runs, Built)
    /\ pc' = "input"
    /\ UNCHANGED <<formatVars, compileVars, env, resolved, extracted, sqlDir,
                   yamlFiles, index, count, console, buildVars, toolVars>>

\* blt cleanup --instance: cleanupGenerated removes dist/data.sql and the
\* instance's sql directory
CleanupGenerated ==
    /\ pc = "input" /\ runs # <<>>
    /\ sqlDir.exists \/ dist.exists
    /\ sqlDir' = Absent
    /\ dist' = Absent
    /\ UNCHANGED <<pc, formatVars, compileVars, env, resolved, extracted, yamlDir,
                   yamlFiles, index, count, console, runs, instanceDir, exitCode,
                   toolVars>>

NextRebuild == BuildData \/ RemoveSource \/ UnmarkSource \/ CleanupGenerated

SpecRebuild == InitRebuild /\ [][NextRebuild]_vars

-----------------------------------------------------------------------------
(* Loading the configuration *)

InitConfig ==
    /\ pc = "input"
    /\ configFiles \in ConfigFileLists
    /\ env \in ConfigEnvironments
    /\ config = <<>>
    /\ value = Null /\ column = NoName
    /\ yamlContent = <<>> /\ parsed = Null /\ name = <<>> /\ type = "table"
    /\ NoResults /\ NoFiles /\ NoCleanup

\* getConfig(), the first time: cachedConfig = loadConfig()
LoadConfig ==
    /\ pc = "input"
    /\ config' = loadConfig(configFiles, env).config
    /\ console' = loadConfig(configFiles, env).console
    /\ pc' = "loaded"
    /\ UNCHANGED <<formatVars, compileVars, env, resolved, extracted, yamlDir,
                   sqlDir, yamlFiles, index, count, runs, buildVars>>
    /\ UNCHANGED <<configFiles, tagFiles, dryRun, minCount, cleaned>>

NextConfig == LoadConfig

SpecConfig == InitConfig /\ [][NextConfig]_vars

-----------------------------------------------------------------------------
(* Cleaning up the tags of an instance *)

InitCleanup ==
    /\ pc = "input"
    /\ tagFiles \in TagFileLists
    /\ dryRun \in BOOLEAN
    /\ minCount \in MinCounts
    /\ cleaned = <<>>
    /\ value = Null /\ column = NoName
    /\ yamlContent = <<>> /\ parsed = Null /\ name = <<>> /\ type = "table"
    /\ env = <<>>
    /\ NoResults /\ NoFiles /\ NoConfig

\* blt cleanup tags <instance> [--min-count n] [--dry-run]
CleanupTags ==
    /\ pc = "input"
    /\ cleaned' = cleanupTags(tagFiles, minCount, dryRun)
    /\ pc' = "cleaned"
    /\ UNCHANGED <<formatVars, compileVars, env, resolved, extracted, batchVars,
                   buildVars, configFiles, config, tagFiles, dryRun, minCount>>

NextCleanup == CleanupTags

SpecCleanup == InitCleanup /\ [][NextCleanup]_vars

-----------------------------------------------------------------------------
(* Reference definitions used by the properties (written from the           *)
(* specification's wording, as strings)                                     *)

\* every single quote doubled, no other character changed
QuotesDoubled(s) ==
    Text(Flatten([i \in 1..Len(s) |-> IF s[i] = "'" THEN <<"'", "'">> ELSE <<s[i]>>]))

Quoted(s) == "'" \o QuotesDoubled(s) \o "'"

\* the numbers of the model as a YAML document writes them
NumberAsWritten(n) ==
    CASE n = 0 -> "0" [] n = 10 -> "1" [] n = 30 -> "3" [] n = 15 -> "1.5"
      [] n = 5 -> "0.5" [] n = 0 - 20 -> "-2" [] n = 0 - 5 -> "-0.5"
      [] n = 120 -> "12" [] n = 1205 -> "120.5"

WholeNumber(n) == n \in {0, 10, 30, 0 - 20, 120}

\* the word NULL in any letter case
NullAnyCase(s) ==
    /\ Len(s) = 4
    /\ s[1] \in {"N", "n"} /\ s[2] \in {"U", "u"}
    /\ s[3] \in {"L", "l"} /\ s[4] \in {"L", "l"}

\* Joined(ts, sep): the strings ts separated by sep
RECURSIVE Joined(_, _)
Joined(ts, sep) ==
    IF ts = <<>> THEN ""
    ELSE IF Len(ts) = 1 THEN ts[1]
    ELSE ts[1] \o sep \o Joined(Tail(ts), sep)

-----------------------------------------------------------------------------
(* Properties of target detection *)

HasValued(doc, key) == \E i \in 1..Len(doc) : doc[i].key = key /\ doc[i].body # <<>>
HasMarker(doc, key) == \E i \in 1..Len(doc) : doc[i].key = key
FirstMarker(doc, key) ==
    CHOOSE i \in 1..Len(doc) :
        doc[i].key = key /\ \A j \in 1..(i - 1) : doc[j].key # key

\* the target a document with a `key: f` line must get: kind key, and as name the
\* value f of its first `key:` line (when that line carries a value)
Wins(doc, key) ==
    /\ target.type = key
    /\ doc[FirstMarker(doc, key)].body # <<>>
          => target.name = doc[FirstMarker(doc, key)].body

-----------------------------------------------------------------------------
(* Properties of value formatting *)

QuotedString(v) == v.t = "str" /\ v.s # <<>> /\ ~NullAnyCase(v.s)

\* C4: wherever a string is rendered as a quoted SQL literal (a table column
\* value, an array item, a typed-cast TEXT parameter, a jsonb_build_object key)
\* each of its single quotes is doubled and no other character is changed;
\* O'Brien renders as 'O''Brien'.
C4_QuoteDoubling ==
    /\ (pc = "literal" /\ QuotedString(value))
          => Text(literal) = Quoted(value.s)
    /\ (pc = "literal" /\ value = Str(S_OBrien))
          => Text(literal) = "'O''Brien'"
    /\ (pc = "literal" /\ value.t = "arr")
          => \A i \in 1..Len(value.items) :
                value.items[i].t = "str" =>
                    \E a \in 1..Len(literal), b \in 1..(Len(literal) - 1) :
                        /\ a + 1 <= b
                        /\ Text(SubSeq(literal, a + 1, b)) = Quoted(value.items[i].s)
                        /\ literal[a] \in {"ARRAY[", " "}
                        /\ literal[b + 1] \in {",", "]::"}
    /\ (pc = "param" /\ QuotedString(value))
          => Text(param) = Quoted(value.s) \o "::TEXT"
    /\ (pc = "param" /\ value.t = "obj" /\ Len(value.entries) > 0)
          => Text(param) =
                "jsonb_build_object("
                \o Joined([i \in 1..Len(value.entries) |->
                             Quoted(value.entries[i][1]) \o ", "
                             \o Text(formatParam(value.entries[i][2], NoName))], ", ")
                \o ")::JSONB"

C4_Witness ==
    pc = "literal" /\ value = Str(S_OBrien) /\ Text(literal) = "'O''Brien'"

\* C6 (reference): the table-literal form of a scalar, by the specification's table
RefScalarLiteral(v, col) ==
    CASE v.t \in {"null", "undef"} -> "NULL"
      [] v.t = "str" /\ v.s = <<>> -> IF col = C_props THEN "'{}'::json" ELSE "NULL"
      [] v.t = "str" /\ NullAnyCase(v.s) -> "NULL"
      [] v.t = "str" /\ v.s # <<>> /\ ~NullAnyCase(v.s) -> Quoted(v.s)
      [] v.t = "bool" -> IF v.b THEN "TRUE" ELSE "FALSE"
      [] v.t = "num" -> NumberAsWritten(v.n)

\* C6: toSqlLiteral formats every scalar, under every column name, as the
\* reference table says: null/undefined -> NULL; "" -> '{}'::json in column
\* props and NULL elsewhere; NULL in any letter case -> NULL; any other string
\* quoted with quotes doubled; boolean -> TRUE/FALSE; number as written.
C6_ScalarLiteralTable ==
    (pc = "literal" /\ value \in Scalars)
        => Text(literal) = RefScalarLiteral(value, column)

C6_Witness ==
    /\ pc = "literal" /\ value = Str(<<"n","u","l","l">>) /\ column = C_props
    /\ Text(literal) = "NULL"

\* C7 (reference): the table-literal form of an array
RefArrayLiteral(v, col) ==
    "ARRAY["
    \o Joined([i \in 1..Len(v.items) |->
                 IF v.items[i].t = "str" THEN Quoted(v.items[i].s)
                 ELSE Text(JSString(v.items[i]))], ", ")
    \o "]::"
    \o (IF col = C_perms THEN "app_perm" ELSE IF col = C_roles THEN "app_role" ELSE "text")
    \o "[]"

\* C7: an array formats as ARRAY[<items joined by ", ">]::<T>[] (ARRAY[]::<T>[]
\* when empty), T being app_perm for column perms, app_role for column roles and
\* text for every other column; string items are quoted with quotes doubled, all
\* other items printed raw.  [] in roles gives ARRAY[]::app_role[] and ['x','y']
\* in tags gives ARRAY['x', 'y']::text[].
C7_ArrayLiteral ==
    /\ (pc = "literal" /\ value.t = "arr")
          => Text(literal) = RefArrayLiteral(value, column)
    /\ (pc = "literal" /\ value = Arr(<<>>) /\ column = C_roles)
          => Text(literal) = "ARRAY[]::app_role[]"
    /\ (pc = "literal" /\ value = Arr(<<Str(<<"x">>), Str(<<"y">>)>>)
        /\ column = <<"t","a","g","s">>)
          => Text(literal) = "ARRAY['x', 'y']::text[]"

C7_Witness ==
    /\ pc = "literal" /\ value = Arr(<<>>) /\ column = C_roles
    /\ Text(literal) = "ARRAY[]::app_role[]"

-----------------------------------------------------------------------------
(* Reading a table literal back *)

DigitValue(c) == (CHOOSE i \in 1..10 : Digits[i] = c) - 1

RECURSIVE NatValue(_)
NatValue(ds) ==
    IF ds = <<>> THEN 0
    ELSE 10 * NatValue(SubSeq(ds, 1, Len(ds) - 1)) + DigitValue(ds[Len(ds)])

\* the number (in tenths) a decimal numeral denotes
NumeralValue(t) ==
    LET neg == t # <<>> /\ t[1] = "-"
        u == IF neg THEN Tail(t) ELSE t
        whole == RunUntil(".", u)
        tenths == 10 * NatValue(SubSeq(u, 1, whole))
                  + (IF whole < Len(u) THEN NatValue(SubSeq(u, whole + 2, Len(u))) ELSE 0)
    IN  IF neg THEN 0 - tenths ELSE tenths

\* the doubled-quote transform undone
RECURSIVE Undoubled(_)
Undoubled(t) ==
    IF t = <<>> THEN <<>>
    ELSE IF Len(t) >= 2 /\ t[1] = "'" /\ t[2] = "'"
    THEN <<"'">> \o Undoubled(SubSeq(t, 3, Len(t)))
    ELSE <<t[1]>> \o Undoubled(Tail(t))

\* the value a scalar table literal reads back as
ReadLiteral(t) ==
    CASE t = <<"NULL">> -> Null
      [] t = <<"TRUE">> -> Bool(TRUE)
      [] t = <<"FALSE">> -> Bool(FALSE)
      [] t = <<"'{}'::json">> -> Obj(<<>>)
      [] Len(t) >= 2 /\ t[1] = "'" /\ t[Len(t)] = "'" ->
            Str(Undoubled(SubSeq(t, 2, Len(t) - 1)))
      [] OTHER -> Num(NumeralValue(t))

RoundTripKinds == Scalars \ {Undefined}

\* C5 as stated: every boolean, number, null and string row value is recovered
\* from its formatted literal (strings by undoing the quote doubling).
C5_RoundTripEveryValue ==
    (pc = "literal" /\ value \in RoundTripKinds) => ReadLiteral(literal) = value

\* C5 (amended): every boolean, number and null is recovered from its formatted
\* literal, and so is every string other than the empty string and the word NULL
\* in any letter case; those strings are formatted as NULL ('{}'::json for the
\* empty string in column props) and do not read back as strings.
C5_RoundTrip ==
    /\ (pc = "literal" /\ value \in RoundTripKinds
        /\ (value.t = "str" => QuotedString(value)))
          => ReadLiteral(literal) = value
    /\ (pc = "literal" /\ value.t = "str" /\ ~QuotedString(value))
          => ReadLiteral(literal) \in {Null, Obj(<<>>)}

C5_Witness ==
    /\ pc = "literal" /\ value = Str(<<"a", "'">>)
    /\ ReadLiteral(literal) = value

-----------------------------------------------------------------------------
(* Properties of typed-cast formatting *)

\* the parameter name contains "order", or contains "id" and not "uuid"
NameHintsInteger(col) ==
    LET has(w) == \E i \in 1..Len(col) :
                     i + Len(w) - 1 <= Len(col)
                     /\ \A j \in 1..Len(w) : col[i + j - 1] = w[j]
    IN  col # NoName
        /\ (has(<<"o","r","d","e","r">>)
            \/ (has(<<"i","d">>) /\ ~has(<<"u","u","i","d">>)))

\* C8 (reference): the typed-cast form of a number under a parameter name
RefNumberParam(n, col) ==
    NumberAsWritten(n)
    \o (IF NameHintsInteger(col) \/ WholeNumber(n) THEN "::INTEGER" ELSE "::NUMERIC")

AllNumbers(o) == \A i \in 1..Len(o.entries) : o.entries[i][2].t = "num"

\* C8: a numeric parameter is cast ::INTEGER whenever its name contains "order",
\* or contains "id" and not "uuid", whatever its value; otherwise ::INTEGER when
\* its value is an integer and ::NUMERIC when it is not.  A number inside an
\* object parameter is formatted with no parameter name: only the integer /
\* non-integer rule applies to it, whatever its key and the object's name.
C8_NumberCast ==
    /\ (pc = "param" /\ value.t = "num")
          => Text(param) = RefNumberParam(value.n, column)
    /\ (pc = "param" /\ value.t = "obj" /\ Len(value.entries) > 0 /\ AllNumbers(value))
          => Text(param) =
                "jsonb_build_object("
                \o Joined([i \in 1..Len(value.entries) |->
                             Quoted(value.entries[i][1]) \o ", "
                             \o RefNumberParam(value.entries[i][2].n, NoName)], ", ")
                \o ")::JSONB"

\* 1.5 under the name user_id is cast to INTEGER
C8_Witness ==
    /\ pc = "param" /\ value = Num(15) /\ column = <<"u","s","e","r","_","i","d">>
    /\ Text(param) = "1.5::INTEGER"

\* C9 (reference): the typed-cast form of a value; anyCase tells whether the word
\* NULL is rendered as the unquoted NULL in any letter case or only as written
RECURSIVE RefParam(_, _)
RefParam(v, anyCase) ==
    CASE v.t \in {"null", "undef"} -> "NULL"
      [] v.t = "bool" -> IF v.b THEN "TRUE::BOOLEAN" ELSE "FALSE::BOOLEAN"
      [] v.t = "num" -> RefNumberParam(v.n, NoName)
      [] v.t = "obj" ->
            "jsonb_build_object("
            \o Joined([i \in 1..Len(v.entries) |->
                         Quoted(v.entries[i][1]) \o ", "
                         \o RefParam(v.entries[i][2], anyCase)], ", ")
            \o ")::JSONB"
      [] v.t = "arr" -> "'" \o Text(jsonForSql(v)) \o "'::JSONB"
      [] v.t = "str" -> IF (IF anyCase THEN NullAnyCase(v.s) ELSE v.s = W_NULL) THEN "NULL"
                       ELSE Quoted(v.s) \o "::TEXT"

\* C9 as stated: only the string NULL itself is rendered as the unquoted NULL
C9_ParamForms ==
    (pc = "param" /\ value.t # "num")
        => Text(param) = RefParam(value, FALSE)

\* C9 (amended): null -> NULL; boolean -> TRUE::BOOLEAN / FALSE::BOOLEAN; a plain
\* object -> jsonb_build_object('k1', v1, ...)::JSONB, keys in their own order,
\* each key a quoted escaped string and each value formatted by the same rules;
\* an array -> its JSON text quoted and cast ::JSONB; a string equal to NULL in
\* any letter case -> unquoted NULL; every other string, the empty one
\* included, -> '<escaped>'::TEXT.
C9_ParamFormsAnyCase ==
    (pc = "param" /\ value.t # "num")
        => Text(param) = RefParam(value, TRUE)

\* the lower-case word null, as a parameter, is the unquoted NULL
C9_Witness ==
    /\ pc = "param" /\ value = Str(<<"n","u","l","l">>) /\ Text(param) = "NULL"

-----------------------------------------------------------------------------
(* Properties of statement generation *)

\* the items of the document's row sequence
DocItems(p) ==
    IF p.t = "arr" THEN p.items
    ELSE IF p.t = "obj" /\ Get(p, K_rows).t = "arr" THEN Get(p, K_rows).items
    ELSE <<>>

\* a non-empty row sequence whose items carry their mapping under `row`
RowsUnderRowKey(p) ==
    /\ DocItems(p) # <<>>
    /\ \A i \in 1..Len(DocItems(p)) :
          DocItems(p)[i].t = "obj" /\ Get(DocItems(p)[i], K_row).t = "obj"

\* the mappings handed to the generator, placeholders resolved
HandedRows(p) ==
    [i \in 1..Len(DocItems(p)) |-> processEnvVars(Get(DocItems(p)[i], K_row), env)]

\* the keys of a mapping, in its own order
KeysOf(row) == [i \in 1..Len(row.entries) |-> row.entries[i][1]]

\* the documented input shape: a marker, and a `rows` sequence whose items are
\* themselves the column -> value mappings
DocumentedShape(p, ty) ==
    /\ p.t = "obj"
    /\ Get(p, TypeKey(ty)).t = "str"
    /\ Get(p, K_rows).t = "arr"
    /\ \A i \in 1..Len(DocItems(p)) :
          /\ DocItems(p)[i].t = "obj"
          /\ Len(DocItems(p)[i].entries) > 0
          /\ Get(DocItems(p)[i], K_row) = Undefined

WhiteSpace == {" ", "\n", "    "}

\* a text with every white-space run replaced by one space
Squash(t) ==
    [i \in 1..Len(t) |->
        IF t[i] \notin WhiteSpace THEN t[i]
        ELSE IF i > 1 /\ t[i - 1] \in WhiteSpace THEN "" ELSE " "]

\* a generated file's text after its header comment line
AfterHeader(t) ==
    IF Len(t) >= 2 /\ t[1] = "-- Generated from JSON data" /\ t[2] = "\n"
    THEN SubSeq(t, 3, Len(t)) ELSE t

\* C2 (reference): the INSERT statement for a row sequence, on one line
RefInsert(rows, tbl) ==
    LET cols == KeysOf(rows[1])
        tuple(r) == "(" \o Joined([i \in 1..Len(cols) |->
                                     Text(toSqlLiteral(Get(r, cols[i]), cols[i]))], ", ")
                    \o ")"
        assign(c) == Text(c) \o " = COALESCE(EXCLUDED." \o Text(c) \o ", "
                     \o Text(tbl) \o "." \o Text(c) \o ")"
    IN  "INSERT INTO " \o Text(tbl)
        \o " (" \o Joined([i \in 1..Len(cols) |-> Text(cols[i])], ", ") \o ")"
        \o " VALUES " \o Joined([i \in 1..Len(rows) |-> tuple(rows[i])], ", ")
        \o " ON CONFLICT (" \o Text(cols[1]) \o ")"
        \o " DO UPDATE SET "
        \o Joined([i \in 1..(Len(cols) - 1) |-> assign(cols[i + 1])], ", ") \o ";"

Count(t, w) == Cardinality({i \in 1..Len(t) : t[i] = w})

\* C2: for a table target and a non-empty row sequence (whose first row has a
\* column) the generator emits, after the header line, exactly one INSERT
\* statement: the columns are the first row's keys in their own order, there is
\* one VALUES tuple per row in row order, the ON CONFLICT key is the first
\* column and DO UPDATE SET has one COALESCE assignment per column but the first.
\* The statement is compared clause by clause: line breaks and indentation
\* between clauses count as single spaces.
C2_InsertStatement ==
    /\ (pc = "compiled" /\ type = "table" /\ RowsUnderRowKey(parsed)
        /\ Len(HandedRows(parsed)[1].entries) > 0)
          => /\ ~sqlContent.threw
             /\ Text(Squash(AfterHeader(sqlContent.text)))
                    = RefInsert(HandedRows(parsed), name)
             /\ Count(sqlContent.text, "INSERT") = 1
             /\ Count(sqlContent.text, ";") = 1
    /\ (pc = "compiled" /\ type = "table" /\ parsed = Arr(Wrapped(ExampleInsertRows)))
          => Text(Squash(AfterHeader(sqlContent.text))) =
                "INSERT INTO t (id, name) VALUES (1, 'a'), (2, 'b') ON CONFLICT (id) DO UPDATE SET name = COALESCE(EXCLUDED.name, t.name);"

C2_Witness ==
    /\ pc = "compiled" /\ type = "table" /\ parsed = Arr(Wrapped(ExampleInsertRows))
    /\ Text(sqlContent.text) =
          "-- Generated from JSON data\nINSERT INTO t (id, name) VALUES\n(1, 'a'),\n(2, 'b')\nON CONFLICT (id) DO UPDATE SET\n    name = COALESCE(EXCLUDED.name, t.name);"

\* the documented row items, placeholders resolved
DocumentedRows(p) == [i \in 1..Len(DocItems(p)) |-> processEnvVars(DocItems(p)[i], env)]

\* C3: a document in the documented shape (a marker and a `rows` sequence whose
\* items are themselves the column -> value mappings), with at least one row,
\* is compiled without an error, and the columns / parameters of the emitted
\* statement are the keys of its row items.
C3_DocumentedShapeCompiles ==
    (pc = "compiled" /\ DocumentedShape(parsed, type) /\ DocItems(parsed) # <<>>)
        => /\ ~sqlContent.threw
           /\ type = "table"
                 => Text(Squash(AfterHeader(sqlContent.text)))
                        = RefInsert(DocumentedRows(parsed), name)

\* C10 (reference): the call statements for a row sequence
RefCalls(keyword, rows, fname) ==
    Joined([r \in 1..Len(rows) |->
              keyword \o " " \o Text(fname) \o "("
              \o Joined([i \in 1..Len(rows[r].entries) |->
                           Text(formatParam(rows[r].entries[i][2], rows[r].entries[i][1]))],
                        ", ")
              \o ");"], "\n")

\* C10: for a function (procedure) target and a non-empty row sequence the
\* generator emits, after the header line, exactly one statement per row, in row
\* order: SELECT <function>(...); (CALL <procedure>(...);), its parameters the
\* row's values in the row's own key order, each in typed-cast form under its
\* key's name.  {active:true,count:3} against f gives
\* SELECT f(TRUE::BOOLEAN, 3::INTEGER);
C10_CallStatements ==
    /\ (pc = "compiled" /\ type \in {"function", "procedure"} /\ RowsUnderRowKey(parsed))
          => /\ ~sqlContent.threw
             /\ Text(sqlContent.text) =
                   "-- Generated from JSON data\n"
                   \o RefCalls(IF type = "function" THEN "SELECT" ELSE "CALL",
                               HandedRows(parsed), name)
             /\ Count(sqlContent.text, ";") = Len(DocItems(parsed))
    /\ (pc = "compiled" /\ type = "function" /\ parsed = Arr(Wrapped(ExampleCallRows)))
          => Text(AfterHeader(sqlContent.text)) = "SELECT f(TRUE::BOOLEAN, 3::INTEGER);"

C10_Witness ==
    /\ pc = "compiled" /\ type = "function" /\ parsed = Arr(Wrapped(ExampleCallRows))
    /\ Text(AfterHeader(sqlContent.text)) = "SELECT f(TRUE::BOOLEAN, 3::INTEGER);"

-----------------------------------------------------------------------------
(* Properties of the empty row sequence *)

\* a document whose row sequence is empty: an empty top-level sequence, a
\* mapping with `rows: []`, or a scalar or null document
EmptyRows(p) ==
    \/ p.t = "arr" /\ p.items = <<>>
    \/ p.t = "obj" /\ Get(p, K_rows) = Arr(<<>>)
    \/ p.t \in {"null", "undef", "bool", "num", "str"}

\* C11: when the extracted row sequence is empty the generated SQL is exactly
\* the one line `-- No rows to insert`, without any INSERT, SELECT or CALL
\* statement, whatever the target kind (table, function, procedure).
C11_EmptyRows ==
    (pc = "compiled" /\ EmptyRows(parsed))
        => /\ ~sqlContent.threw
           /\ Text(sqlContent.text) = "-- No rows to insert"
           /\ Count(sqlContent.text, "INSERT") = 0
           /\ Count(sqlContent.text, "SELECT") = 0
           /\ Count(sqlContent.text, "CALL") = 0
           /\ Count(sqlContent.text, "\n") = 0

C11_Witness ==
    /\ pc = "compiled" /\ type = "procedure"
    /\ parsed = Obj(<< <<TypeKey("procedure"), Str(TargetName("procedure"))>>,
                       <<K_rows, Arr(<<>>)>> >>)
    /\ Text(sqlContent.text) = "-- No rows to insert"

-----------------------------------------------------------------------------
(* Properties of environment substitution *)

PlainText == {<<>>, <<"x">>, <<"-">>}

\* C12: a string holding the placeholder ${A} between plain text: when A is
\* not set the placeholder stays as it is, and when A is set the placeholder is
\* replaced by exactly A's value, the empty value included.
C12_BracedPlaceholder ==
    \A pre \in PlainText, post \in PlainText :
        (pc = "resolved" /\ value.s = pre \o P_braced \o post)
            => resolved =
                  pre \o (IF <<"A">> \in DOMAIN env THEN env[<<"A">>] ELSE P_braced)
                  \o post

\* the placeholder a string starts with: its length and its variable's name
\* (length 0 when the string starts with no placeholder).  ${...} is read
\* first, then {NAME}, then $NAME.
PlaceholderAt(str) ==
    LET nb == IF Len(str) >= 3 /\ str[1] = "$" /\ str[2] = "{"
              THEN RunUntil("}", SubSeq(str, 3, Len(str))) ELSE 0
        nc == IF Len(str) >= 2 /\ str[1] = "{" /\ str[2] \in UpperStart
              THEN RunIn(UpperPart, Tail(str)) ELSE 0
        nd == IF Len(str) >= 2 /\ str[1] = "$" /\ str[2] \in AnyStart
              THEN RunIn(AnyPart, Tail(str)) ELSE 0
    IN  IF nb >= 1 /\ Len(str) >= nb + 3
        THEN [len |-> nb + 3, name |-> SubSeq(str, 3, nb + 2)]
        ELSE IF nc >= 1 /\ Len(str) >= nc + 2 /\ str[nc + 2] = "}"
        THEN [len |-> nc + 2, name |-> SubSeq(str, 2, nc + 1)]
        ELSE IF nd >= 1
        THEN [len |-> nd + 1, name |-> SubSeq(str, 2, nd + 1)]
        ELSE [len |-> 0]

\* C13 (reference): every placeholder of the string replaced by its own
\* variable's value, or kept when the variable is not set; replaced text is
\* not read again
RECURSIVE ResolvedIndependently(_, _)
ResolvedIndependently(str, e) ==
    IF str = <<>> THEN <<>>
    ELSE LET ph == PlaceholderAt(str)
         IN  IF ph.len = 0
             THEN <<Head(str)>> \o ResolvedIndependently(Tail(str), e)
             ELSE (IF ph.name \in DOMAIN e THEN e[ph.name]
                   ELSE SubSeq(str, 1, ph.len))
                  \o ResolvedIndependently(SubSeq(str, ph.len + 1, Len(str)), e)

\* C13: in a string with placeholders of several styles each placeholder is
\* resolved on its own: the result is the input with each placeholder replaced
\* by its variable's value (kept when unset), and text a replacement brought in
\* is not taken for a placeholder by a later pass.
C13_ResolvedIndependently ==
    pc = "resolved" => resolved = ResolvedIndependently(value.s, env)

-----------------------------------------------------------------------------
(* Properties of row extraction *)

\* the kinds of YAML nodes a loaded document stands for
IsSequence(p) == p.t = "arr"
IsMapping(p) == p.t = "obj"
HasKey(p, k) == \E i \in 1..Len(p.entries) : p.entries[i][1] = k
ValueOf(p, k) == p.entries[CHOOSE i \in 1..Len(p.entries) : p.entries[i][1] = k][2]

\* C14: row extraction follows four rules in priority order: a top-level
\* sequence is the row sequence; otherwise a mapping whose key `rows` holds a
\* sequence gives that sequence (an empty one gives zero rows); otherwise any
\* mapping is wrapped as the only element of the row sequence; otherwise (a
\* scalar or null) the row sequence is empty.
C14_RowExtraction ==
    pc = "extracted" =>
        extracted =
            IF IsSequence(parsed) THEN parsed.items
            ELSE IF IsMapping(parsed) /\ HasKey(parsed, K_rows)
                    /\ IsSequence(ValueOf(parsed, K_rows))
            THEN ValueOf(parsed, K_rows).items
            ELSE IF IsMapping(parsed) THEN <<parsed>>
            ELSE <<>>

-----------------------------------------------------------------------------
(* Properties of the file pipeline *)

\* the name ends with the four characters of the extension
HasExtension(nm, ext) ==
    Len(nm) >= 4 /\ [i \in 1..4 |-> nm[Len(nm) - 4 + i]] = ext

\* the name with its final four-character extension replaced
WithExtension(nm, ext) == [i \in 1..(Len(nm) - 4) |-> nm[i]] \o ext

\* the .yml entries of a directory
YmlIn(d) == IF d.exists THEN {nm \in DOMAIN d.files : HasExtension(nm, E_yml)} ELSE {}

\* a comes before b in lexicographic order of the characters' code units
RECURSIVE Precedes(_, _)
Precedes(a, b) ==
    IF b = <<>> THEN FALSE
    ELSE IF a = <<>> THEN TRUE
    ELSE IF Head(a) = Head(b) THEN Precedes(Tail(a), Tail(b))
    ELSE CodeUnit(Head(a)) < CodeUnit(Head(b))

IsProcessing(e) == e.kind = "processing"
IsCreated(e) == e.kind = "created"

\* the names of the files taken up so far, in the order they were taken up
TakenUp == [i \in 1..Len(SelectSeq(console, IsProcessing)) |->
               SelectSeq(console, IsProcessing)[i].name]

DiscoveredNames == [i \in 1..Len(yamlFiles) |-> yamlFiles[i].name]

\* C19: the discovered list holds first the .yml files of the yaml directory
\* in ascending lexicographic order, then the .yml files of the sql directory
\* in ascending lexicographic order without those whose name occurred in the
\* yaml directory; no name occurs twice; and the files are taken up one after
\* another in exactly this order.
C19_DiscoveryOrder ==
    LET k == Cardinality({i \in 1..Len(yamlFiles) : yamlFiles[i].source = "subdir"})
        n == Len(yamlFiles)
    IN  /\ (pc = "loop" /\ index = 0) =>
              /\ \A i \in 1..n : yamlFiles[i].source = IF i <= k THEN "subdir"
                                                        ELSE "current"
              /\ {DiscoveredNames[i] : i \in 1..k} = YmlIn(yamlDir)
              /\ {DiscoveredNames[i] : i \in (k + 1)..n} = YmlIn(sqlDir) \ YmlIn(yamlDir)
              /\ \A i \in 1..n, j \in 1..n :
                    (i < j /\ (j <= k \/ i > k))
                        => Precedes(DiscoveredNames[i], DiscoveredNames[j])
              /\ \A i \in 1..n, j \in 1..n :
                    i # j => DiscoveredNames[i] # DiscoveredNames[j]
        /\ pc \in {"loop", "returned", "thrown"} =>
              TakenUp = SubSeq(DiscoveredNames, 1, index)

C19_Witness ==
    /\ pc = "returned"
    /\ yamlFiles = <<YamlFile(N_B, "subdir"), YamlFile(N_1, "current")>>
    /\ N_B \in DOMAIN sqlDir.files
    /\ TakenUp = <<N_B, N_1>>

\* C20: every file that is compiled is written into the sql directory under
\* its own name with the final .yml replaced by .sql: the written name ends in
\* .sql and differs from the source's name in that final extension only.
C20_OutputName ==
    \A j \in 1..Len(console) :
        IsCreated(console[j]) =>
            /\ console[j].name = WithExtension(console[j - 1].name, E_sql)
            /\ HasExtension(console[j].name, E_sql)
            /\ console[j].name \in DOMAIN sqlDir.files

\* C18: running processYamlFiles a second time over the directories the first
\* run left finds the same files and leaves every file of the sql directory
\* with the content it had after the first run.
C18_SecondRunChangesNothing ==
    Len(runs) >= 2 =>
        /\ runs[2].found = runs[1].found
        /\ runs[2].sql = runs[1].sql

\* the content of a discovered file
ContentOf(file) == readFileSync(file, yamlDir, sqlDir)

\* no table, function or procedure marker in the file's text
Unclassifiable(file) == ~HasMarker(linesOf(ContentOf(file)), "function")
                        /\ ~HasMarker(linesOf(ContentOf(file)), "procedure")
                        /\ ~HasMarker(linesOf(ContentOf(file)), "table")

\* a marker, and text that yaml.load rejects
Malformed(file) == ~Unclassifiable(file) /\ ~load(ContentOf(file)).ok

ErrorPrinted(nm) == \E j \in 1..Len(console) : console[j] = Printed("error", nm)

\* a file was written for the j-th file that was taken up
WrittenFor(nm) ==
    \E j \in 1..(Len(console) - 1) :
        console[j] = Printed("processing", nm) /\ IsCreated(console[j + 1])

\* C15: a file without a marker that the loop takes up is reported, no file is
\* written for it, it is not counted, it raises no exception, and every later
\* file of the batch is still taken up.
C15_UnclassifiableSkipped ==
    pc \in {"returned", "thrown"} =>
        \A i \in 1..index :
            Unclassifiable(yamlFiles[i]) =>
                /\ ErrorPrinted(yamlFiles[i].name)
                /\ ~WrittenFor(yamlFiles[i].name)
                /\ count = Len(SelectSeq(console, IsCreated))
                /\ ~(pc = "thrown" /\ index = i)
                /\ index = Len(yamlFiles)

\* C16: a file with a marker whose text is not YAML is reported with its name
\* and skipped, and every later file of the batch is still taken up and, when
\* it compiles, written.
C16_MalformedRecovered ==
    pc \in {"returned", "thrown"} =>
        \A i \in 1..index :
            Malformed(yamlFiles[i]) =>
                /\ ErrorPrinted(yamlFiles[i].name)
                /\ ~WrittenFor(yamlFiles[i].name)
                /\ index = Len(yamlFiles)
                /\ \A j \in (i + 1)..Len(yamlFiles) :
                      (~Unclassifiable(yamlFiles[j]) /\ ~Malformed(yamlFiles[j]))
                          => WrittenFor(yamlFiles[j].name)

-----------------------------------------------------------------------------
(* Properties of the build commands *)

\* the build reported an error, ended with a non-zero exit and wrote nothing
AbortedNext ==
    /\ exitCode' = "1"
    /\ dist' = Absent
    /\ \E j \in 1..Len(console') : console'[j].kind = "fatal"

\* C17 (as claimed): a data build whose instance directory or whose sql
\* directory is absent, and a schema build whose sql directory is absent,
\* reports the error, ends with a non-zero exit and writes no artifact.
C17_MissingDirectoryFatal ==
    [][ /\ (BuildData /\ (~instanceDir \/ ~sqlDir.exists)) => AbortedNext
        /\ (BuildSchema /\ ~sqlDir.exists) => AbortedNext ]_vars

\* C17: a data build whose instance directory is absent, and a schema build
\* whose sql directory is absent, reports the error, ends with a non-zero
\* exit and writes no artifact.  An absent sql directory of an instance that
\* exists is not fatal: when the instance has a yaml directory the sql
\* directory is created and the build goes on (it ends with a non-zero exit
\* only when converting a YAML file throws); when it has none, a warning is
\* printed, the artifact is written with its header alone and the exit is zero.
C17_MissingDirectory ==
    [][ /\ (BuildData /\ ~instanceDir) => AbortedNext
        /\ (BuildSchema /\ ~sqlDir.exists) => AbortedNext
        /\ (BuildData /\ instanceDir /\ ~sqlDir.exists /\ yamlDir.exists)
              => /\ sqlDir'.exists
                 /\ exitCode' = "0" => (dist'.exists /\ dist'.header = "data")
                 /\ exitCode' = "1" =>
                       \E err \in {"YAMLException", "TypeError"} :
                           console'[Len(console')] = Printed("fatal", <<err>>)
        /\ (BuildData /\ instanceDir /\ ~sqlDir.exists /\ ~yamlDir.exists)
              => /\ exitCode' = "0"
                 /\ dist'.exists /\ dist'.header = "data" /\ dist'.parts = <<>>
                 /\ dist'.text = dataHeader
                 /\ \E j \in 1..Len(console') : console'[j].kind = "warn"
                 /\ ~sqlDir'.exists ]_vars

C17_Witness ==
    /\ pc = "builtData" /\ instanceDir /\ ~sqlDir.exists /\ ~yamlDir.exists
    /\ exitCode = "0" /\ dist.exists

-----------------------------------------------------------------------------
(* Properties of the generated file's first line *)

\* the first line of a text
FirstLine(t) ==
    IF \E i \in 1..Len(t) : t[i] = "\n"
    THEN SubSeq(t, 1, (CHOOSE i \in 1..Len(t) :
                          t[i] = "\n" /\ \A j \in 1..(i - 1) : t[j] # "\n") - 1)
    ELSE t

\* C21 (as stated): every generated SQL text that per-file processing writes
\* (every text yamlToSql returns) begins with the line
\* `-- Generated from JSON data`, for every target kind and every row sequence.
C21_HeaderLineAlways ==
    (pc = "compiled" /\ ~sqlContent.threw)
        => Text(FirstLine(sqlContent.text)) = "-- Generated from JSON data"

\* C21: every generated SQL text that per-file processing writes begins with
\* the line `-- Generated from JSON data` when the row sequence is not empty,
\* for every target kind; for an empty row sequence the text is the one line
\* `-- No rows to insert` and the header line is not in it.
C21_HeaderLine ==
    (pc = "compiled" /\ ~sqlContent.threw)
        => IF EmptyRows(parsed)
           THEN /\ Text(sqlContent.text) = "-- No rows to insert"
                /\ Count(sqlContent.text, "-- Generated from JSON data") = 0
           ELSE /\ Text(FirstLine(sqlContent.text)) = "-- Generated from JSON data"
                /\ Len(sqlContent.text) > Len(FirstLine(sqlContent.text))

C21_Witness ==
    /\ pc = "compiled" /\ type = "function" /\ ~sqlContent.threw
    /\ parsed = Arr(Wrapped(ExampleCallRows))
    /\ Text(FirstLine(sqlContent.text)) = "-- Generated from JSON data"

-----------------------------------------------------------------------------
(* Properties of the combined artifact *)

ContainsDigit(nm) ==
    \E i \in 1..Len(nm) : nm[i] \in {"0", "1", "2", "3", "4", "5", "6", "7", "8", "9"}

\* nm ends with the suffix ext, letters compared without regard to case
SuffixAnyCase(nm, ext) ==
    /\ Len(nm) >= Len(ext)
    /\ \A i \in 1..Len(ext) :
          toLowerChar(nm[Len(nm) - Len(ext) + i]) = toLowerChar(ext[i])

\* the rule of the aggregation filter, as it is described
Contributes(nm) ==
    /\ ContainsDigit(nm)
    /\ SuffixAnyCase(nm, E_sql) \/ SuffixAnyCase(nm, E_ddl)
    /\ ~(Len(nm) >= Len(schemaName) /\ SubSeq(nm, 1, Len(schemaName)) = schemaName)

\* the names of the files the artifact was put together from
Contributors == {dist.parts[i].file : i \in 1..Len(dist.parts)}

\* C22: in the combined artifact of a schema build and of a data build alike,
\* a file of the directory contributes if and only if its name contains a
\* digit, its suffix is .sql or .ddl in any letter case, and its name does not
\* start with the schema name.
C22_AggregationFilter ==
    (pc \in {"builtData", "builtSchema"} /\ dist.exists)
        => \A f \in readdirSync(sqlDir) : f \in Contributors <=> Contributes(f)

\* where the text of the artifact has the content of a file
ContentAt == {i \in 1..Len(dist.text) : dist.text[i].kind = "content"}

\* where it has a segment of the given kind
SegmentAt(kind) == {i \in 1..Len(dist.text) : dist.text[i].kind = kind}

\* C23: in the combined artifact the header comes first, then the content of
\* each contributing file exactly once, in ascending order of file name by
\* code units (not as numbers, not by letters regardless of case), each content
\* immediately preceded by its own SET search_path directive; in a schema
\* build the header's DROP SCHEMA precedes CREATE SCHEMA, which precedes all
\* file content.
C23_AggregationOrder ==
    (pc \in {"builtData", "builtSchema"} /\ dist.exists)
        => /\ dist.text[1].kind = "banner"
           /\ \A i \in ContentAt : \A h \in SegmentAt("banner") : h < i
           /\ \A f \in Contributors :
                 Cardinality({i \in ContentAt : dist.text[i].of = f}) = 1
           /\ \A i \in ContentAt :
                 /\ dist.text[i].of \in Contributors
                 /\ dist.text[i].content = sqlDir.files[dist.text[i].of]
                 /\ i > 1 /\ dist.text[i - 1] = Segment("SET search_path", dist.text[i].of)
           /\ \A i \in ContentAt, j \in ContentAt :
                 i < j => Precedes(dist.text[i].of, dist.text[j].of)
           /\ pc = "builtSchema" =>
                 /\ Cardinality(SegmentAt("DROP SCHEMA")) = 1
                 /\ Cardinality(SegmentAt("CREATE SCHEMA")) = 1
                 /\ \A d \in SegmentAt("DROP SCHEMA"), c \in SegmentAt("CREATE SCHEMA") :
                       d < c /\ \A i \in ContentAt : c < i

C23_Witness ==
    /\ pc = "builtSchema" /\ dist.exists
    /\ readdirSync(sqlDir) = {N_10, N_9, N_B2}
    /\ [i \in 1..Len(dist.parts) |-> dist.parts[i].file] = <<N_10, N_9, N_B2>>
    /\ Cardinality(ContentAt) = 3

-----------------------------------------------------------------------------
(* Properties of a data build that converts YAML files *)

\* the names of the SQL files the build generated from YAML files
Generated == {console[j].name : j \in {k \in 1..Len(console) : IsCreated(console[k])}}

\* C24: after a data build, the SQL generated from every YAML file of the
\* instance that was compiled successfully is part of the combined data
\* artifact, with the content that was written for it, the parts of the
\* artifact being in the order of their file names by code units.
C24_GeneratedSqlAggregated ==
    pc = "builtData"
        => \A f \in Generated :
              /\ dist.exists
              /\ \E i \in 1..Len(dist.parts) :
                    dist.parts[i] = [file |-> f, content |-> sqlDir.files[f]]
              /\ \A i \in 1..Len(dist.parts), j \in 1..Len(dist.parts) :
                    i < j => Precedes(dist.parts[i].file, dist.parts[j].file)

-----------------------------------------------------------------------------
(* Properties of the configuration *)

\* the first configuration file, in the order blt.config.json, .bltrc,
\* ~/.blt/config.json, that is there and can be read (0 when there is none)
FirstFound ==
    IF \E i \in 1..3 : configFiles[i].exists /\ configFiles[i].parses
    THEN CHOOSE i \in 1..3 :
            /\ configFiles[i].exists /\ configFiles[i].parses
            /\ \A j \in 1..3 : (configFiles[j].exists /\ configFiles[j].parses) => i <= j
    ELSE 0

\* the value the first source found gives a key: the first file found when it
\* sets the key; without any file the environment variable when it is set,
\* and the default otherwise
FirstSource(key, variable, default) ==
    IF FirstFound # 0
    THEN (IF key \in DOMAIN configFiles[FirstFound].settings
          THEN {configFiles[FirstFound].settings[key]}
          ELSE {default, IF variable \in DOMAIN env THEN env[variable] ELSE default})
    ELSE IF variable \in DOMAIN env /\ env[variable] # "" THEN {env[variable]}
    ELSE {default}

\* C25: the configuration's sources are consulted in the order
\* blt.config.json, .bltrc, ~/.blt/config.json, environment variables,
\* defaults, and the first source found wins: a value the first configuration
\* file found sets for schemaBase or distPath is the effective one, also when
\* the environment variable for it is set.
C25_FirstSourceWins ==
    pc = "loaded"
        => /\ config.schemaBase \in FirstSource("schemaBase", "BLT_SCHEMA_BASE", "./schema")
           /\ config.distPath \in FirstSource("distPath", "BLT_DIST_PATH", "./dist")

-----------------------------------------------------------------------------
(* Properties of the INSERT statement's columns *)

\* the positions of the line breaks of a text, and its lines
Breaks(t) == {i \in 1..Len(t) : t[i] = "\n"}

BreakAt(t, k) ==
    IF k = 0 THEN 0
    ELSE IF k > Cardinality(Breaks(t)) THEN Len(t) + 1
    ELSE CHOOSE i \in Breaks(t) : Cardinality({j \in Breaks(t) : j < i}) = k - 1

SplitLines(t) ==
    [k \in 1..(Cardinality(Breaks(t)) + 1) |->
        SubSeq(t, BreakAt(t, k - 1) + 1, BreakAt(t, k) - 1)]

\* the VALUES tuple of a row under the columns cols: the row's own value for
\* a column it has, NULL for a column it lacks
RefTuple(row, cols) ==
    "(" \o Joined([i \in 1..Len(cols) |->
                     IF HasKey(row, cols[i])
                     THEN Text(toSqlLiteral(ValueOf(row, cols[i]), cols[i]))
                     ELSE "NULL"], ", ")
    \o ")"

\* C26: in a generated INSERT the column list is the first row's keys, every
\* VALUES tuple has exactly as many entries as that list, in its order, for
\* any sequence of row mappings; a later row's value for a column it lacks is
\* NULL, and a key that a later row has but the first row lacks appears
\* nowhere in the output.
C26_ColumnsFromFirstRow ==
    (pc = "compiled" /\ type = "table" /\ RowsUnderRowKey(parsed))
        => LET rows == HandedRows(parsed)
               cols == KeysOf(rows[1])
               n == Len(rows)
               lns == SplitLines(sqlContent.text)
           IN  /\ ~sqlContent.threw
               /\ Len(lns) >= n + 2
               /\ Text(lns[2]) = "INSERT INTO " \o Text(name) \o " ("
                                 \o Joined([i \in 1..Len(cols) |-> Text(cols[i])], ", ")
                                 \o ") VALUES"
               /\ \A r \in 1..n :
                     /\ Text(lns[r + 2])
                           = RefTuple(rows[r], cols) \o (IF r < n THEN "," ELSE "")
                     /\ Count(lns[r + 2], ",") - (IF r < n THEN 1 ELSE 0)
                           = (IF Len(cols) = 0 THEN 0 ELSE Len(cols) - 1)
                     /\ \A i \in 1..Len(rows[r].entries) :
                           ~HasKey(rows[1], rows[r].entries[i][1])
                              => ~includes(sqlContent.text, rows[r].entries[i][1])

C26_Witness ==
    /\ pc = "compiled" /\ type = "table"
    /\ parsed = Arr(Wrapped(<<Obj(<< <<C_name, Str(<<"a">>)>> >>),
                              Obj(<< <<C_id, Num(10)>> >>)>>))
    /\ Text(sqlContent.text) =
          "-- Generated from JSON data\nINSERT INTO t (name) VALUES\n('a'),\n(NULL)\nON CONFLICT (name) DO UPDATE SET\n;"

\* the text between the parentheses that follow the word w on a line
Parenthesised(line, w) ==
    LET at == CHOOSE i \in 1..Len(line) : line[i] = w
        open == CHOOSE i \in at..Len(line) :
                   line[i] = "(" /\ \A j \in at..(i - 1) : line[j] # "("
        close == CHOOSE i \in open..Len(line) :
                    line[i] = ")" /\ \A j \in open..(i - 1) : line[j] # ")"
    IN  SubSeq(line, open + 1, close - 1)

\* C27: every INSERT statement emitted for a non-empty sequence of row
\* mappings is well-formed: its column list and its ON CONFLICT key are not
\* empty and its DO UPDATE SET clause has at least one assignment, also when
\* the first row has exactly one key or none.
C27_WellFormedInsert ==
    (pc = "compiled" /\ type = "table" /\ RowsUnderRowKey(parsed))
        => LET lns == SplitLines(sqlContent.text)
               n == Len(HandedRows(parsed))
           IN  /\ ~sqlContent.threw
               /\ Len(lns) >= n + 4
               /\ Parenthesised(lns[2], "INTO") # <<>>
               /\ Parenthesised(lns[n + 3], "CONFLICT") \notin {<<>>, <<"undefined">>}
               /\ \A k \in (n + 4)..Len(lns) :
                     Count(lns[k], "=") = 1 /\ Count(lns[k], "COALESCE(EXCLUDED.") = 1

-----------------------------------------------------------------------------
(* Properties of successive data builds *)

\* a file that the compiler generated
IsGenerated(content) ==
    /\ content.kind = "sql" /\ content.text # <<>>
    /\ content.text[1] \in {"-- Generated from JSON data", "-- No rows to insert"}

\* C28: in every data build of a sequence of builds of one instance, the
\* generated SQL in the combined artifact comes only from YAML files compiled
\* in that same build: a generated .sql file that an earlier build left in the
\* sql directory, its YAML source since removed or now skipped for want of a
\* marker, is not part of the new artifact.
C28_NoStaleGeneratedSql ==
    (pc = "builtData" /\ dist.exists /\ exitCode = "0")
        => \A i \in 1..Len(dist.parts) :
              IsGenerated(dist.parts[i].content) => dist.parts[i].file \in Generated

-----------------------------------------------------------------------------
(* Properties of the tag cleanup *)

\* C29: cleanupTags in dry-run mode writes no YAML file and removes no tag
\* from any parsed document, and returns the same totalTags, validTags,
\* removedTags, filesModified and itemsModified as a run without dry-run on
\* the same files returns (and throws when that run throws).
C29_DryRunSameStats ==
    (pc = "cleaned" /\ dryRun)
        => /\ cleaned.written = {}
           /\ cleaned.disk = tagFiles
           /\ cleaned.docs = tagFiles
           /\ cleaned.threw = cleanupTags(tagFiles, minCount, FALSE).threw
           /\ cleaned.stats = cleanupTags(tagFiles, minCount, FALSE).stats

\* the files whose rows are looked at: those that parse and have rows
WithRows(i) == tagFiles[i].ok /\ tagFiles[i].v.hasRows

\* the number of occurrences of a tag over all rows of all these files, before
\* any modification
Occurrences(tag) ==
    Cardinality({u \in (1..Len(tagFiles)) \X (1..MaxRows) \X (1..MaxItems) :
        /\ WithRows(u[1])
        /\ u[2] <= Len(tagFiles[u[1]].v.rows)
        /\ tagFiles[u[1]].v.rows[u[2]] # 0
        /\ LET tags == tagFiles[u[1]].v.props[tagFiles[u[1]].v.rows[u[2]]]
           IN  tags.t = "arr" /\ u[3] <= Len(tags.items) /\ tags.items[u[3]] = tag})

Frequent(tag) == Occurrences(tag) >= (IF minCount = {} THEN 4 ELSE CHOOSE n \in minCount : TRUE)

\* the tags value of row k of a document
RowTags(doc, k) == IF doc.rows[k] = 0 THEN Undefined ELSE doc.props[doc.rows[k]]

\* what a tag list becomes: its frequent tags in their order, and no tags key
\* at all when tags were removed and none is left
Cleaned(tags) ==
    IF SelectSeq(tags.items, Frequent) = tags.items THEN tags
    ELSE IF SelectSeq(tags.items, Frequent) = <<>> THEN Undefined
    ELSE Arr(SelectSeq(tags.items, Frequent))

\* C30: after cleanupTags without dry-run, in every file that parses and has
\* rows, a tag occurrence remains in a row's props.tags if and only if the
\* tag occurs at least minCount (default 4) times over all rows of all such
\* files, as counted before any modification; a row all of whose tags are
\* removed has no tags key any more; and a file is rewritten only if one of
\* its rows lost a tag.
C30_RareTagsRemoved ==
    (pc = "cleaned" /\ ~dryRun)
        => \A i \in 1..Len(tagFiles) :
              /\ WithRows(i) =>
                    \A k \in 1..Len(tagFiles[i].v.rows) :
                       RowTags(tagFiles[i].v, k).t = "arr" =>
                          RowTags(cleaned.disk[i].v, k) = Cleaned(RowTags(tagFiles[i].v, k))
              /\ i \in cleaned.written =>
                    /\ WithRows(i)
                    /\ \E k \in 1..Len(tagFiles[i].v.rows) :
                          /\ RowTags(tagFiles[i].v, k).t = "arr"
                          /\ Cleaned(RowTags(tagFiles[i].v, k)) # RowTags(tagFiles[i].v, k)
              /\ i \notin cleaned.written => cleaned.disk[i] = tagFiles[i]

=============================================================================
